---- MODULE Spec2Model ----
(***************************************************************************)
(* CourseHub server: the enrollment engine of src/routes/enrollments.js    *)
(* and the grade ledger of src/routes/grades.js over the PostgreSQL schema *)
(* (users, courses, course_prereqs, enrollments, grades).                  *)
(*                                                                         *)
(* Every `await pool.query(...)` is one atomic database statement and one  *)
(* action of the model; the JavaScript between two awaits runs with the    *)
(* statement that precedes it.  Requests are handled concurrently by the   *)
(* node event loop: between two statements of one request any statement of *)
(* another request may run.                                                *)
(***************************************************************************)
EXTENDS Integers, Sequences, FiniteSets, TLC

VARIABLES
    users,          \* table users: id -> role
    accounts,       \* table users: rows [id, email, student_id, password]
    userSeq,        \* sequence users_id_seq (last value handed out)
    courses,        \* table courses: id -> [code, name, credits, enrollment_limit, teacher_id]
    courseSeq,      \* sequence courses_id_seq (last value handed out)
    course_prereqs, \* table course_prereqs: set of [course_id, prereq_id]
    enrollments,    \* table enrollments: set of rows [id, student_id, course_id]
    enrollSeq,      \* sequence enrollments_id_seq (last value handed out)
    grades,         \* table grades: set of rows [id, student_id, course_id, value, assigned_at]
    gradeSeq,       \* sequence grades_id_seq (last value handed out)
    clock,          \* the database server's NOW()
    req,            \* request slot -> the request in flight (or its response)
    enrollments0,   \* history: the enrollments table when the latest request was received
    grades0,        \* history: the grades table when the latest request was received
    served,         \* history: the requests answered before the latest one was received, newest first (two at most)
    budget          \* number of requests the model still lets in

vars == <<users, accounts, userSeq, courses, courseSeq, course_prereqs, enrollments, enrollSeq,
          grades, gradeSeq, clock, req, enrollments0, grades0, served, budget>>

db == <<users, accounts, userSeq, courses, courseSeq, course_prereqs, enrollments, enrollSeq, grades, gradeSeq, clock>>

(***************************************************************************)
(* Bounds of the model.                                                    *)
(***************************************************************************)
NStudents   == 3     \* students in the users table
MaxLimit    == 2     \* largest enrollment_limit
MaxList     == 3     \* longest studentIds list of a bulk request served alone
NConc       == 2     \* students who send requests concurrently
MaxConcList == 2     \* longest studentIds list of a concurrent bulk request
MaxReqs     == 2     \* requests received in a concurrent run
MaxClock    == 2     \* latest NOW()
MaxGradeReqs == 3    \* requests received in a run that assigns grades
MaxLifeReqs == 2     \* requests received in a run that deletes courses and users
MaxAuthReqs == 3     \* requests received in a run of registrations and logins
MaxCourseReqs == 2   \* requests received in a run that creates and updates courses
MaxUserReqs == 2     \* requests received in a run that changes roles
MaxTripReqs == 3     \* requests received in a run of enrolls and unenrolls served one by one
MaxLimitReqs == 2    \* requests received in a run that changes a limit

Slots        == {1, 2}
StudentIds   == 1..NStudents
ConcStudents == 1..NConc
TeacherId  == NStudents + 1
AdminId    == NStudents + 2
GhostId    == NStudents + 3      \* an id that names no user
Teacher2Id == NStudents + 4      \* a teacher who owns no course

\* db/seed.sql: CS101 and CS201, CS201 requires CS101
FirstStudentNo == 1000     \* student ids count up from S1001
CS101 == 1
CS201 == 2
CourseIds  == {CS101, CS201}
NoCourseId == CS201 + 1          \* an id that names no course

\* the seeded courses' codes and names
SeedCode(c) == IF c = CS101 THEN "CS101" ELSE "CS201"
SeedName(c) == IF c = CS101 THEN "Intro to CS" ELSE "Data Structures"

\* grade_letter enum, highest to lowest
ALLOWED_GRADES ==
    <<"A_PLUS", "A", "A_MINUS", "B_PLUS", "B", "B_MINUS",
      "C_PLUS", "C", "C_MINUS", "D", "F">>

GradeLetters == {ALLOWED_GRADES[k] : k \in 1..Len(ALLOWED_GRADES)}

NoGrade == "null"                \* SQL NULL / JavaScript null

(***************************************************************************)
(* The database: queries and constraints.                                  *)
(***************************************************************************)

\* requireRole(...roles): the caller's role must be one of roles
\* req.user.role: the role in the caller's token, as it was when the token
\* was signed (the users table is not read again)
tokenRole(u) ==
    IF u \in StudentIds THEN "STUDENT"
    ELSE IF u \in {TeacherId, Teacher2Id} THEN "TEACHER"
    ELSE IF u = AdminId THEN "ADMIN"
    ELSE "STUDENT"

\* (mutant) the middleware lets every authenticated caller through
requireRole_Open(roles, role) == TRUE

requireRole(roles, role) == roles = {} \/ role \in roles

\* SELECT ... COUNT(*) FROM enrollments GROUP BY course_id, COALESCE(.., 0)
EnrolledCount(c) == Cardinality({e \in enrollments : e.course_id = c})

\* SELECT prereq_id FROM course_prereqs WHERE course_id = c
PrereqsOf(c) == {p.prereq_id : p \in {x \in course_prereqs : x.course_id = c}}

\* SELECT 1 FROM enrollments WHERE student_id = s AND course_id = c LIMIT 1
\* (mutant) the exists query finds nothing
EnrollmentExists_Skipped(s, c) == FALSE

EnrollmentExists(s, c) ==
    \E e \in enrollments : e.student_id = s /\ e.course_id = c

\* (mutant) the table without its unique constraint
UniqueViolation_Dropped(s, c) == FALSE

\* CONSTRAINT enrollments_unique UNIQUE (student_id, course_id): error 23505
UniqueViolation(s, c) ==
    \E e \in enrollments : e.student_id = s /\ e.course_id = c

\* student_id REFERENCES users(id), course_id REFERENCES courses(id): error 23503
ForeignKeyViolation(s, c) == s \notin DOMAIN users \/ c \notin DOMAIN courses

\* (mutant) ORDER BY id DESC: the row inserted last
LatestRows_ById(s, c) ==
    LET mine == {g \in grades : g.student_id = s /\ g.course_id = c}
    IN  {g \in mine : \A h \in mine : h.id <= g.id}

\* The grade rows of (s, c) that ORDER BY assigned_at DESC puts first.  With
\* equal timestamps the order among them is not defined: any may come first.
LatestRows(s, c) ==
    LET mine == {g \in grades : g.student_id = s /\ g.course_id = c}
    IN  {g \in mine : \A h \in mine : h.assigned_at <= g.assigned_at}

\* What ORDER BY assigned_at DESC LIMIT 1 (single enroll) and DISTINCT ON
\* (course_id) ... ORDER BY course_id, assigned_at DESC (bulk enroll) can
\* return for (s, c): the latest value, or null when there is no grade row.
LatestGrades(s, c) ==
    IF LatestRows(s, c) = {} THEN {NoGrade}
    ELSE {g.value : g \in LatestRows(s, c)}

\* (mutant) only the missing grade is checked
Passing_FPasses(lg) == lg # NoGrade

\* (mutant) the lowest passing letter is taken for a failure
Passing_DFails(lg) == lg \notin {NoGrade, "F", "D"}

\* r => !r.latest_grade || r.latest_grade === "F"   (negated: lg && lg !== "F")
Passing(lg) == lg # NoGrade /\ lg # "F"

\* (mutant) off by one: a full course still passes the check
AtCapacity_Strict(enrolled, limit) == enrolled > limit

\* enrolled >= enrollment_limit
AtCapacity(enrolled, limit) == enrolled >= limit

\* Math.max(0, cap[0].seats_left)
\* (mutant) the difference is used as it is read, without Math.max(0, ...)
SeatsLeftAtStart_Raw(limit, enrolled) == limit - enrolled

SeatsLeftAtStart(limit, enrolled) ==
    IF limit - enrolled > 0 THEN limit - enrolled ELSE 0

(***************************************************************************)
(* Requests.                                                               *)
(***************************************************************************)
\* bcrypt.hash(password, 10): the stored hash of a password
Hash(password) == <<"$2b$10$", password>>

\* bcrypt.compare(password, hash), for a password that is a string
Compare(password, hash) == hash = Hash(password)

\* the decimal digits of n, as the characters of a string
RECURSIVE Digits(_)
Digits(n) ==
    LET d == <<"0", "1", "2", "3", "4", "5", "6", "7", "8", "9">> IN
    IF n < 10 THEN <<d[n + 1]>> ELSE Digits(n \div 10) \o <<d[(n % 10) + 1]>>

\* db/seed.sql: the email of seeded user u (the part before @coursehub.io)
\* and the password every seeded user has
SeedEmail(u) == <<"user">> \o Digits(u)

SeedPassword == "adminpass"

\* user u as seeded: students have the student ids S1001, S1002, ...
SeedAccount(u) ==
    [id |-> u, email |-> SeedEmail(u),
     student_id |-> IF u \in StudentIds THEN FirstStudentNo + u ELSE 0,
     password |-> Hash(SeedPassword)]

\* no users row selected, no token issued
NoRow == [id |-> 0, role |-> "", password |-> <<>>]

NoToken == [id |-> 0, role |-> ""]

\* no transaction open: nothing written that a COMMIT would make visible
NoCourseRow == [code |-> "", name |-> "", credits |-> 0, enrollment_limit |-> 0,
                teacher_id |-> 0]

NoTx == [open |-> FALSE, id |-> 0, row |-> NoCourseRow, replace |-> FALSE, prereqs |-> {}]

Idle ==
    [kind |-> "none", pc |-> "idle", user |-> 0, role |-> "", id |-> 0, courseId |-> 0,
     studentIds |-> <<>>, studentId |-> 0, value |-> "", now |-> 0,
     i |-> 0, seatsLeft |-> 0, prereqIds |-> {}, results |-> <<>>,
     firstName |-> <<>>, lastName |-> <<>>, email |-> <<>>, password |-> "",
     studentNo |-> 0, finalStudentId |-> 0, row |-> NoRow, token |-> NoToken,
     given |-> {}, code |-> "", name |-> "", credits |-> 0, enrollment_limit |-> 0,
     teacherId |-> 0, prereqList |-> <<>>, tx |-> NoTx, seats |-> <<>>,
     bodyRole |-> "",
     status |-> 0, error |-> ""]

\* res.status(status).json({ error }): the handler returns, its locals are gone
Respond(rq, status, error) ==
    [Idle EXCEPT !.kind = rq.kind, !.pc = "done", !.user = rq.user,
                 !.role = rq.role, !.id = rq.id, !.courseId = rq.courseId,
                 !.studentIds = rq.studentIds, !.studentId = rq.studentId,
                 !.value = rq.value, !.firstName = rq.firstName,
                 !.lastName = rq.lastName, !.email = rq.email,
                 !.password = rq.password, !.studentNo = rq.studentNo,
                 !.given = rq.given, !.code = rq.code, !.name = rq.name,
                 !.credits = rq.credits, !.enrollment_limit = rq.enrollment_limit,
                 !.teacherId = rq.teacherId, !.prereqList = rq.prereqList,
                 !.bodyRole = rq.bodyRole,
                 !.status = status, !.error = error]

\* a slot takes the next request while the server still accepts requests
Free(r) == req[r].pc \in {"idle", "done"} /\ budget > 0

Receive(r, rq) ==
    /\ req' = [req EXCEPT ![r] = rq]
    /\ budget' = budget - 1
    /\ enrollments0' = enrollments
    /\ grades0' = grades
    /\ served' = IF req[r].pc = "done"
                    THEN <<[kind |-> req[r].kind, user |-> req[r].user,
                            id |-> req[r].id, courseId |-> req[r].courseId,
                            status |-> req[r].status,
                            enrollments |-> enrollments0]>>
                            \o SubSeq(served, 1, IF served = <<>> THEN 0 ELSE 1)
                 ELSE served

Set(r, rq) ==
    /\ req' = [req EXCEPT ![r] = rq]
    /\ UNCHANGED <<budget, enrollments0, grades0, served>>

(***************************************************************************)
(* POST /enrollments: student self-enroll.                                 *)
(***************************************************************************)
\* requireAuth, requireRole("STUDENT"), if (!courseId) return 400
StartEnroll(r, Callers, Cs) ==
    /\ Free(r)
    /\ \E u \in Callers, c \in Cs :
         LET rq == [Idle EXCEPT !.kind = "enroll", !.user = u,
                                !.role = tokenRole(u), !.courseId = c]
         IN  Receive(r, IF ~requireRole({"STUDENT"}, tokenRole(u))
                           THEN Respond(rq, 403, "Forbidden")
                        ELSE IF c = 0
                           THEN Respond(rq, 400, "courseId required")
                        ELSE [rq EXCEPT !.pc = "capQ"])
    /\ UNCHANGED db

\* (mutant) the missing row is not checked: reading capRows[0] throws
CourseNotFound_Throws(rq) == Respond(rq, 500, "Server error")

\* if (!cap) return res.status(404).json({ error: "Course not found" })
CourseNotFound(rq) == Respond(rq, 404, "Course not found")

\* 1) Capacity + existence
EnrollCapQ(r) ==
    LET rq == req[r] c == rq.courseId IN
    /\ rq.pc = "capQ"
    /\ Set(r, IF c \notin DOMAIN courses
                 THEN CourseNotFound(rq)
              ELSE IF AtCapacity(EnrolledCount(c), courses[c].enrollment_limit)
                 THEN Respond(rq, 409, "Course is at capacity")
              ELSE [rq EXCEPT !.pc = "prereqQ"])
    /\ UNCHANGED db

\* 2) Prereqs (if any)
EnrollPrereqQ(r) ==
    LET rq == req[r] IN
    /\ rq.pc = "prereqQ"
    /\ Set(r, IF PrereqsOf(rq.courseId) # {}
                 THEN [rq EXCEPT !.pc = "passQ"]
              ELSE [rq EXCEPT !.pc = "insQ"])
    /\ UNCHANGED db

\* (mutant) the unmet check does not return: the handler goes on to the insert
PrereqsUnsatisfied_FallsThrough(rq) == [rq EXCEPT !.pc = "insQ"]

\* if (unmet.length > 0) return res.status(409).json({ error: ... })
PrereqsUnsatisfied(rq) == Respond(rq, 409, "Prerequisites not satisfied")

\* latest grade for each prereq; unmet = no grade or "F"
EnrollPassQ(r) ==
    LET rq == req[r] P == PrereqsOf(rq.courseId) IN
    /\ rq.pc = "passQ"
    /\ \E gradeRows \in [P -> GradeLetters \cup {NoGrade}] :
         /\ \A p \in P : gradeRows[p] \in LatestGrades(rq.user, p)
         /\ LET unmet == {p \in P : ~Passing(gradeRows[p])}
            IN  Set(r, IF unmet # {}
                          THEN PrereqsUnsatisfied(rq)
                       ELSE [rq EXCEPT !.pc = "insQ"])
    /\ UNCHANGED db

\* (mutant) a plain INSERT: the unique violation is thrown into the catch
EnrollConflict_Throws(rq) == Respond(rq, 500, "Server error")

\* (mutant) the handler returns without sending a response
EnrollConflict_Silent(rq) == rq

\* ON CONFLICT DO NOTHING returns no row: if (!ins[0]) return 409
EnrollConflict(rq) == Respond(rq, 409, "Already enrolled")

\* 3) Enroll: INSERT ... ON CONFLICT DO NOTHING RETURNING *
EnrollInsQ(r) ==
    LET rq == req[r] s == rq.user c == rq.courseId IN
    /\ rq.pc = "insQ"
    /\ IF UniqueViolation(s, c)
          THEN /\ Set(r, EnrollConflict(rq))
               /\ UNCHANGED db
       ELSE IF ForeignKeyViolation(s, c)
          THEN /\ Set(r, Respond(rq, 500, "Server error"))
               /\ UNCHANGED db
       ELSE /\ enrollments' = enrollments \cup
                   {[id |-> enrollSeq + 1, student_id |-> s, course_id |-> c]}
            /\ enrollSeq' = enrollSeq + 1
            /\ Set(r, Respond(rq, 201, ""))
            /\ UNCHANGED <<users, accounts, userSeq, courses, courseSeq, course_prereqs, grades, gradeSeq, clock>>

(***************************************************************************)
(* POST /enrollments/bulk: teacher (owner) or admin enrolls a list.        *)
(***************************************************************************)
Denied(sid, reason) == [studentId |-> sid, ok |-> FALSE, reason |-> reason]
\* (mutant) the candidate whose row was inserted is recorded as a denial
Admitted_AsDenied(sid) == [studentId |-> sid, ok |-> FALSE, reason |-> "capacity"]

Admitted(sid) == [studentId |-> sid, ok |-> TRUE,  reason |-> ""]

\* (mutant) the counter is not decremented
SeatsAfterInsert_Kept(seatsLeft) == seatsLeft

\* seatsLeft -= 1
SeatsAfterInsert(seatsLeft) == seatsLeft - 1

\* res.status(200).json({ results, seatsLeft })
RespondBulk(rq) ==
    [Respond(rq, 200, "") EXCEPT !.results = rq.results,
                                  !.seatsLeft = rq.seatsLeft]

\* (mutant) every candidate recorded takes a seat, the denied ones too
Push_ConsumesSeat(rq, entry) ==
    [rq EXCEPT !.results = Append(@, entry), !.i = @ + 1,
               !.seatsLeft = IF entry.ok THEN @ ELSE @ - 1]

\* results.push(entry); continue
Push(rq, entry) == [rq EXCEPT !.results = Append(@, entry), !.i = @ + 1]

\* (mutant) the loop stops at the first candidate met without a free seat
LoopHead_ShortCircuits(rq) ==
    IF rq.i > Len(rq.studentIds) \/ rq.seatsLeft <= 0 THEN RespondBulk(rq)
    ELSE [rq EXCEPT !.pc = "b_exists"]

\* The head of the for-loop, up to the next await: candidates met with
\* seatsLeft <= 0 are recorded with "capacity" without any query.
RECURSIVE LoopHead(_)
LoopHead(rq) ==
    IF rq.i > Len(rq.studentIds) THEN RespondBulk(rq)
    ELSE IF rq.seatsLeft <= 0
        THEN LoopHead(Push(rq, Denied(rq.studentIds[rq.i], "capacity")))
    ELSE [rq EXCEPT !.pc = "b_exists"]

\* the request body's studentIds: the lists of ids up to a length
ListsOver(Ids, maxLen) == UNION {[1..n -> Ids] : n \in 0..maxLen}

\* requireAuth, requireRole("TEACHER","ADMIN"), 400 on a missing courseId or list
StartBulk(r, Callers, Cs, Lists) ==
    /\ Free(r)
    /\ \E u \in Callers, c \in Cs, ids \in Lists :
         LET rq == [Idle EXCEPT !.kind = "bulk", !.user = u, !.role = tokenRole(u),
                                !.courseId = c, !.studentIds = ids]
         IN  Receive(r, IF ~requireRole({"TEACHER", "ADMIN"}, tokenRole(u))
                           THEN Respond(rq, 403, "Forbidden")
                        ELSE IF c = 0 \/ Len(ids) = 0
                           THEN Respond(rq, 400, "courseId and studentIds[] are required")
                        ELSE IF tokenRole(u) = "TEACHER"
                           THEN [rq EXCEPT !.pc = "b_owner"]
                        ELSE [rq EXCEPT !.pc = "b_cap"])
    /\ UNCHANGED db

\* Ownership check for teachers
BulkOwnerQ(r) ==
    LET rq == req[r] c == rq.courseId IN
    /\ rq.pc = "b_owner"
    /\ Set(r, IF c \notin DOMAIN courses
                 THEN CourseNotFound(rq)
              ELSE IF courses[c].teacher_id # rq.user
                 THEN Respond(rq, 403, "Not your course")
              ELSE [rq EXCEPT !.pc = "b_cap"])
    /\ UNCHANGED db

\* Capacity left
BulkCapQ(r) ==
    LET rq == req[r] c == rq.courseId IN
    /\ rq.pc = "b_cap"
    /\ Set(r, IF c \notin DOMAIN courses
                 THEN CourseNotFound(rq)
              ELSE [rq EXCEPT !.pc = "b_prereqs",
                              !.seatsLeft = SeatsLeftAtStart(
                                  courses[c].enrollment_limit, EnrolledCount(c))])
    /\ UNCHANGED db

\* Get prereqs for the course, then enter the loop
BulkPrereqsQ(r) ==
    LET rq == req[r] IN
    /\ rq.pc = "b_prereqs"
    /\ Set(r, LoopHead([rq EXCEPT !.prereqIds = PrereqsOf(rq.courseId), !.i = 1]))
    /\ UNCHANGED db

\* already enrolled?
BulkExistsQ(r) ==
    LET rq == req[r] sid == rq.studentIds[rq.i] IN
    /\ rq.pc = "b_exists"
    /\ Set(r, IF EnrollmentExists(sid, rq.courseId)
                 THEN LoopHead(Push(rq, Denied(sid, "already_enrolled")))
              ELSE IF rq.prereqIds # {}
                 THEN [rq EXCEPT !.pc = "b_grades"]
              ELSE [rq EXCEPT !.pc = "b_insert"])
    /\ UNCHANGED db

\* prereq check: for each prereq course, latest grade must not be 'F'
BulkGradesQ(r) ==
    LET rq == req[r] sid == rq.studentIds[rq.i] P == rq.prereqIds IN
    /\ rq.pc = "b_grades"
    /\ \E g \in [P -> GradeLetters \cup {NoGrade}] :
         /\ \A pid \in P : g[pid] \in LatestGrades(sid, pid)
         /\ LET passedAll == \A pid \in P : Passing(g[pid])
            IN  Set(r, IF ~passedAll
                          THEN LoopHead(Push(rq, Denied(sid, "prereq")))
                       ELSE [rq EXCEPT !.pc = "b_insert"])
    /\ UNCHANGED db

\* (mutant) the failed insert is recorded as a denial and the loop goes on
BulkInsertFailed_Continues(rq) ==
    LoopHead(Push(rq, Denied(rq.studentIds[rq.i], "already_enrolled")))

\* catch (e) { return res.status(500).json({ error: "Server error" }) }
BulkInsertFailed(rq) == Respond(rq, 500, "Server error")

\* insert: a plain INSERT, any constraint violation throws into the catch
BulkInsertQ(r) ==
    LET rq == req[r] sid == rq.studentIds[rq.i] c == rq.courseId IN
    /\ rq.pc = "b_insert"
    /\ IF UniqueViolation(sid, c) \/ ForeignKeyViolation(sid, c)
          THEN /\ Set(r, BulkInsertFailed(rq))
               /\ UNCHANGED db
       ELSE /\ enrollments' = enrollments \cup
                   {[id |-> enrollSeq + 1, student_id |-> sid, course_id |-> c]}
            /\ enrollSeq' = enrollSeq + 1
            /\ Set(r, LoopHead(Push([rq EXCEPT !.seatsLeft = SeatsAfterInsert(@)],
                                    Admitted(sid))))
            /\ UNCHANGED <<users, accounts, userSeq, courses, courseSeq, course_prereqs, grades, gradeSeq, clock>>

(***************************************************************************)
(* DELETE /enrollments/by-course/:courseId: student unenrolls.             *)
(***************************************************************************)
StartUnenrollByCourse(r, Callers, Cs) ==
    /\ Free(r)
    /\ \E u \in Callers, c \in Cs :
         LET rq == [Idle EXCEPT !.kind = "unenroll", !.user = u,
                                !.role = tokenRole(u), !.courseId = c]
         IN  Receive(r, IF ~requireRole({"STUDENT"}, tokenRole(u))
                           THEN Respond(rq, 403, "Forbidden")
                        ELSE [rq EXCEPT !.pc = "u_delete"])
    /\ UNCHANGED db

\* (mutant) the DELETE's WHERE clause has lost its course_id condition
OwnRows_AnyCourse(s, c) == {e \in enrollments : e.student_id = s}

\* the rows matching WHERE student_id=$1 AND course_id=$2
OwnRows(s, c) == {e \in enrollments : e.student_id = s /\ e.course_id = c}

\* DELETE FROM enrollments WHERE student_id=$1 AND course_id=$2
UnenrollByCourseQ(r) ==
    LET rq == req[r]
        gone == OwnRows(rq.user, rq.courseId)
    IN
    /\ rq.pc = "u_delete"
    /\ enrollments' = enrollments \ gone
    /\ Set(r, IF gone = {} THEN Respond(rq, 404, "Enrollment not found")
              ELSE Respond(rq, 204, ""))
    /\ UNCHANGED <<users, accounts, userSeq, courses, courseSeq, course_prereqs, enrollSeq, grades, gradeSeq, clock>>

(***************************************************************************)
(* POST /grades: teacher (owner) or admin assigns a grade.                 *)
(***************************************************************************)
StartGrade(r, Callers, Sids, Cs, Values) ==
    /\ Free(r)
    /\ \E u \in Callers, sid \in Sids, c \in Cs, v \in Values :
         LET rq == [Idle EXCEPT !.kind = "grade", !.user = u, !.role = tokenRole(u),
                                !.courseId = c, !.studentId = sid, !.value = v]
         IN  Receive(r, IF ~requireRole({"TEACHER", "ADMIN"}, tokenRole(u))
                           THEN Respond(rq, 403, "Forbidden")
                        ELSE IF sid = 0 \/ c = 0 \/ v = ""
                           THEN Respond(rq, 400, "studentId, courseId, value required")
                        ELSE IF v \notin GradeLetters
                           THEN Respond(rq, 400, "Invalid grade value")
                        ELSE IF tokenRole(u) = "TEACHER"
                           THEN [rq EXCEPT !.pc = "g_owner"]
                        ELSE [rq EXCEPT !.pc = "g_begin"])
    /\ UNCHANGED db

GradeOwnerQ(r) ==
    LET rq == req[r] c == rq.courseId IN
    /\ rq.pc = "g_owner"
    /\ Set(r, IF c \notin DOMAIN courses
                 THEN Respond(rq, 404, "Course not found")
              ELSE IF courses[c].teacher_id # rq.user
                 THEN Respond(rq, 403, "Not your course")
              ELSE [rq EXCEPT !.pc = "g_begin"])
    /\ UNCHANGED db

\* INSERT INTO grades ...: the statement starts, DEFAULT NOW() is the time of
\* its start (time may or may not have advanced since the last statement)
GradeInsertBegin(r) ==
    LET rq == req[r] IN
    /\ rq.pc = "g_begin"
    /\ \E t \in {clock, clock + 1} :
         /\ t <= MaxClock
         /\ clock' = t
         /\ Set(r, [rq EXCEPT !.pc = "g_commit", !.now = t])
    /\ UNCHANGED <<users, accounts, userSeq, courses, courseSeq, course_prereqs, enrollments, enrollSeq, grades, gradeSeq>>

\* ... and commits: the row gets the next id and becomes visible
GradeInsertCommit(r) ==
    LET rq == req[r] IN
    /\ rq.pc = "g_commit"
    /\ IF ForeignKeyViolation(rq.studentId, rq.courseId)
          THEN /\ Set(r, Respond(rq, 500, "Server error"))
               /\ UNCHANGED db
       ELSE /\ grades' = grades \cup
                   {[id |-> gradeSeq + 1, student_id |-> rq.studentId,
                     course_id |-> rq.courseId, value |-> rq.value,
                     assigned_at |-> rq.now]}
            /\ gradeSeq' = gradeSeq + 1
            /\ Set(r, Respond(rq, 201, ""))
            /\ UNCHANGED <<users, accounts, userSeq, courses, courseSeq, course_prereqs, enrollments, enrollSeq, clock>>

(***************************************************************************)
(* DELETE /enrollments/:enrollmentId: student unenrolls by enrollment id.  *)
(***************************************************************************)
StartUnenroll(r, Callers, Ids) ==
    /\ Free(r)
    /\ \E u \in Callers, enrollmentId \in Ids :
         LET rq == [Idle EXCEPT !.kind = "unenrollById", !.user = u,
                                !.role = tokenRole(u), !.id = enrollmentId]
         IN  Receive(r, IF ~requireRole({"STUDENT"}, tokenRole(u))
                           THEN Respond(rq, 403, "Forbidden")
                        ELSE [rq EXCEPT !.pc = "ue_select"])
    /\ UNCHANGED db

\* (mutant) the owner of the enrollment is not compared with the caller
NotYourEnrollment_Never(rows, studentId) == FALSE

\* if (rows[0].student_id !== studentId) return 403
NotYourEnrollment(rows, studentId) == \E e \in rows : e.student_id # studentId

\* SELECT student_id FROM enrollments WHERE id = $1
UnenrollSelectQ(r) ==
    LET rq == req[r]
        rows == {e \in enrollments : e.id = rq.id}
    IN
    /\ rq.pc = "ue_select"
    /\ Set(r, IF rows = {} THEN Respond(rq, 404, "Not found")
              ELSE IF NotYourEnrollment(rows, rq.user)
                 THEN Respond(rq, 403, "Not your enrollment")
              ELSE [rq EXCEPT !.pc = "ue_delete"])
    /\ UNCHANGED db

\* DELETE FROM enrollments WHERE id = $1
UnenrollDeleteQ(r) ==
    LET rq == req[r] IN
    /\ rq.pc = "ue_delete"
    /\ enrollments' = {e \in enrollments : e.id # rq.id}
    /\ Set(r, Respond(rq, 204, ""))
    /\ UNCHANGED <<users, accounts, userSeq, courses, courseSeq, course_prereqs, enrollSeq, grades, gradeSeq, clock>>

(***************************************************************************)
(* DELETE /courses/:id: teacher (owner) or admin deletes a course.         *)
(***************************************************************************)
\* A row of another table references courses(id) = c without ON DELETE
\* CASCADE (error 23503 on delete).  course_prereqs, enrollments and grades
\* all reference courses(id) ON DELETE CASCADE: there is no such row.
CourseRestricted(c) == FALSE

\* A row of another table references users(id) = u without ON DELETE CASCADE:
\* courses.teacher_id REFERENCES users(id) ON DELETE RESTRICT
UserRestricted(u) == \E c \in DOMAIN courses : courses[c].teacher_id = u

\* a transaction of another request has written the courses row id and has
\* not committed yet: a statement that writes the row waits for it
RowLocked(r, id) == \E q \in Slots \ {r} : req[q].tx.open /\ req[q].tx.id = id

StartDeleteCourse(r, Callers, Cs) ==
    /\ Free(r)
    /\ \E u \in Callers, c \in Cs :
         LET rq == [Idle EXCEPT !.kind = "deleteCourse", !.user = u,
                                !.role = tokenRole(u), !.id = c]
         IN  Receive(r, IF ~requireRole({"TEACHER", "ADMIN"}, tokenRole(u))
                           THEN Respond(rq, 403, "Forbidden")
                        ELSE IF tokenRole(u) = "TEACHER"
                           THEN [rq EXCEPT !.pc = "dc_owner"]
                        ELSE [rq EXCEPT !.pc = "dc_delete"])
    /\ UNCHANGED db

\* SELECT teacher_id FROM courses WHERE id=$1
DeleteCourseOwnerQ(r) ==
    LET rq == req[r] IN
    /\ rq.pc = "dc_owner"
    /\ Set(r, IF rq.id \notin DOMAIN courses
                 THEN Respond(rq, 404, "Not found")
              ELSE IF courses[rq.id].teacher_id # rq.user
                 THEN Respond(rq, 403, "Not your course")
              ELSE [rq EXCEPT !.pc = "dc_delete"])
    /\ UNCHANGED db

\* DELETE FROM courses WHERE id=$1, with the cascades of the schema
DeleteCourseQ(r) ==
    LET rq == req[r] c == rq.id IN
    /\ rq.pc = "dc_delete"
    /\ ~RowLocked(r, c)
    /\ IF CourseRestricted(c)
          THEN /\ Set(r, Respond(rq, 409,
                         "Course has related records; remove dependencies first"))
               /\ UNCHANGED db
       ELSE /\ courses' = [x \in DOMAIN courses \ {c} |-> courses[x]]
            /\ course_prereqs' =
                 {p \in course_prereqs : p.course_id # c /\ p.prereq_id # c}
            /\ enrollments' = {e \in enrollments : e.course_id # c}
            /\ grades' = {g \in grades : g.course_id # c}
            /\ Set(r, Respond(rq, 204, ""))
            /\ UNCHANGED <<users, accounts, userSeq, courseSeq, enrollSeq, gradeSeq, clock>>

(***************************************************************************)
(* POST /courses and PUT /courses/:id: teacher or admin creates or updates *)
(* a course and its prerequisites inside one transaction.  What the        *)
(* transaction has written is kept in the request (tx) and becomes visible *)
(* in the tables at COMMIT; a ROLLBACK drops it.  The sequence is not      *)
(* transactional: an id handed out stays handed out.                       *)
(***************************************************************************)
\* validateCourseCreate: code and name present and not blank, credits and
\* enrollment_limit present and >= 0
validateCourseCreate(body) ==
    /\ "code" \in body.given /\ body.code # ""
    /\ "name" \in body.given /\ body.name # ""
    /\ "credits" \in body.given /\ body.credits >= 0
    /\ "enrollment_limit" \in body.given /\ body.enrollment_limit >= 0

\* validateCourseUpdate: only the provided fields are validated
validateCourseUpdate(body) ==
    /\ "code" \in body.given => body.code # ""
    /\ "name" \in body.given => body.name # ""
    /\ "credits" \in body.given => body.credits >= 0
    /\ "enrollment_limit" \in body.given => body.enrollment_limit >= 0

\* (mutant) the own id is not filtered out of the list
Uniq_KeepsSelf(prereqList, id) == {prereqList[k] : k \in DOMAIN prereqList}

\* [...new Set(prereqIds.map(Number))].filter((pid) => pid !== id)
Uniq(prereqList, id) == {prereqList[k] : k \in DOMAIN prereqList} \ {id}

\* SELECT id FROM courses WHERE id = ANY($1::int[])
ExistingAmong(uniq) == uniq \cap DOMAIN courses

\* CONSTRAINT course_prereqs_not_self CHECK (course_id <> prereq_id)
NotSelfViolation(id, uniq) == id \in uniq

\* code TEXT NOT NULL UNIQUE: error 23505
CodeUniqueViolation(id, code) ==
    \E c \in DOMAIN courses : c # id /\ courses[c].code = code

\* (mutant) the previous prerequisites are not deleted before the new ones
\* are inserted
PrereqsAfter_Merges(edges, id, replace, ins) ==
    edges \cup {[course_id |-> id, prereq_id |-> p] : p \in ins}

\* the prerequisite edges once the transaction's DELETE (replace) and INSERT
\* ... ON CONFLICT DO NOTHING (ins) are committed
PrereqsAfter(edges, id, replace, ins) ==
    (IF replace THEN {e \in edges : e.course_id # id} ELSE edges)
       \cup {[course_id |-> id, prereq_id |-> p] : p \in ins}

\* the request as received: the body's fields
WithBody(rq, body) ==
    [rq EXCEPT !.given = body.given, !.code = body.code, !.name = body.name,
               !.credits = body.credits, !.enrollment_limit = body.enrollment_limit,
               !.teacherId = body.teacherId, !.prereqList = body.prereqList]

\* requireAuth, requireRole("TEACHER","ADMIN"), validateCourseCreate -> 400
StartPostCourse(r, Callers, Bodies) ==
    /\ Free(r)
    /\ \E u \in Callers, body \in Bodies :
         LET rq == WithBody([Idle EXCEPT !.kind = "postCourse", !.user = u,
                                         !.role = tokenRole(u)], body)
         IN  Receive(r, IF ~requireRole({"TEACHER", "ADMIN"}, tokenRole(u))
                           THEN Respond(rq, 403, "Forbidden")
                        ELSE IF ~validateCourseCreate(body)
                           THEN Respond(rq, 400, "errors")
                        ELSE [rq EXCEPT !.pc = "cc_insert"])
    /\ UNCHANGED db

\* BEGIN; INSERT INTO courses ... RETURNING *; then the prereqIds filter
PostCourseInsertQ(r) ==
    LET rq == req[r]
        teacherId == IF rq.role = "TEACHER" THEN rq.user
                     ELSE IF "teacherId" \in rq.given /\ rq.teacherId # 0
                        THEN rq.teacherId
                     ELSE rq.user
        id   == courseSeq + 1
        row  == [code |-> rq.code, name |-> rq.name, credits |-> rq.credits,
                 enrollment_limit |-> rq.enrollment_limit, teacher_id |-> teacherId]
        uniq == Uniq(rq.prereqList, id)
    IN
    /\ rq.pc = "cc_insert"
    /\ courseSeq' = id
    /\ Set(r, IF CodeUniqueViolation(id, rq.code)
                 THEN Respond(rq, 409, "Course code already exists")
              ELSE IF teacherId \notin DOMAIN users
                 THEN Respond(rq, 400, "violates foreign key constraint")
              ELSE [rq EXCEPT !.id = id, !.prereqIds = uniq,
                              !.tx = [open |-> TRUE, id |-> id, row |-> row,
                                      replace |-> FALSE, prereqs |-> {}],
                              !.pc = IF "prereqIds" \in rq.given /\ uniq # {}
                                        THEN "cc_exist" ELSE "cc_commit"])
    /\ UNCHANGED <<users, accounts, userSeq, courses, course_prereqs, enrollments,
                   enrollSeq, grades, gradeSeq, clock>>

\* ensure prereq courses exist
PostCourseExistQ(r) ==
    LET rq == req[r] IN
    /\ rq.pc = "cc_exist"
    /\ Set(r, IF Cardinality(ExistingAmong(rq.prereqIds)) # Cardinality(rq.prereqIds)
                 THEN Respond(rq, 400, "One or more prereqIds do not exist")
              ELSE [rq EXCEPT !.pc = "cc_prereqs"])
    /\ UNCHANGED db

\* INSERT INTO course_prereqs ... ON CONFLICT (course_id,prereq_id) DO NOTHING
PostCoursePrereqsQ(r) ==
    LET rq == req[r] IN
    /\ rq.pc = "cc_prereqs"
    /\ Set(r, IF NotSelfViolation(rq.id, rq.prereqIds)
                 THEN Respond(rq, 400, "violates check constraint")
              ELSE [rq EXCEPT !.tx.prereqs = rq.prereqIds, !.pc = "cc_commit"])
    /\ UNCHANGED db

\* COMMIT; res.status(201).json(course)
PostCourseCommit(r) ==
    LET rq == req[r] tx == rq.tx IN
    /\ rq.pc = "cc_commit"
    /\ courses' = [c \in DOMAIN courses \cup {tx.id} |->
                     IF c = tx.id THEN tx.row ELSE courses[c]]
    /\ course_prereqs' = PrereqsAfter(course_prereqs, tx.id, tx.replace, tx.prereqs)
    /\ Set(r, Respond(rq, 201, ""))
    /\ UNCHANGED <<users, accounts, userSeq, courseSeq, enrollments, enrollSeq,
                   grades, gradeSeq, clock>>

\* requireAuth, requireRole("TEACHER","ADMIN"), validateCourseUpdate -> 400
StartPutCourse(r, Callers, Ids, Bodies) ==
    /\ Free(r)
    /\ \E u \in Callers, id \in Ids, body \in Bodies :
         LET rq == WithBody([Idle EXCEPT !.kind = "putCourse", !.user = u,
                                         !.role = tokenRole(u), !.id = id], body)
         IN  Receive(r, IF ~requireRole({"TEACHER", "ADMIN"}, tokenRole(u))
                           THEN Respond(rq, 403, "Forbidden")
                        ELSE IF ~validateCourseUpdate(body)
                           THEN Respond(rq, 400, "errors")
                        ELSE IF tokenRole(u) = "TEACHER"
                           THEN [rq EXCEPT !.pc = "pc_owner"]
                        ELSE [rq EXCEPT !.pc = "pc_update"])
    /\ UNCHANGED db

\* teacher ownership enforcement
PutCourseOwnerQ(r) ==
    LET rq == req[r] IN
    /\ rq.pc = "pc_owner"
    /\ Set(r, IF rq.id \notin DOMAIN courses
                 THEN Respond(rq, 404, "Not found")
              ELSE IF courses[rq.id].teacher_id # rq.user
                 THEN Respond(rq, 403, "Not your course")
              ELSE [rq EXCEPT !.pc = "pc_update"])
    /\ UNCHANGED db

\* COALESCE($n, column): the provided value, or the column as it is
Coalesce(given, field, value, column) == IF field \in given THEN value ELSE column

\* BEGIN; UPDATE courses SET ... WHERE id=$5 RETURNING *
PutCourseUpdateQ(r) ==
    LET rq == req[r] id == rq.id IN
    /\ rq.pc = "pc_update"
    /\ ~RowLocked(r, id)
    /\ Set(r, IF id \notin DOMAIN courses
                 THEN Respond(rq, 404, "Not found")
              ELSE LET old == courses[id]
                       row == [code |-> Coalesce(rq.given, "code", rq.code, old.code),
                               name |-> Coalesce(rq.given, "name", rq.name, old.name),
                               credits |-> Coalesce(rq.given, "credits", rq.credits,
                                                    old.credits),
                               enrollment_limit |->
                                   Coalesce(rq.given, "enrollment_limit",
                                            rq.enrollment_limit, old.enrollment_limit),
                               teacher_id |-> old.teacher_id]
                   IN  IF CodeUniqueViolation(id, row.code)
                          THEN Respond(rq, 409, "Course code already exists")
                       ELSE [rq EXCEPT !.prereqIds = Uniq(rq.prereqList, id),
                                       !.tx = [open |-> TRUE, id |-> id, row |-> row,
                                               replace |-> FALSE, prereqs |-> {}],
                                       !.pc = IF "prereqIds" \in rq.given
                                                 THEN "pc_delete" ELSE "pc_commit"])
    /\ UNCHANGED db

\* If prereqIds provided, replace the set: DELETE FROM course_prereqs
PutCourseDeleteQ(r) ==
    LET rq == req[r] IN
    /\ rq.pc = "pc_delete"
    /\ Set(r, [rq EXCEPT !.tx.replace = TRUE,
                         !.pc = IF rq.prereqIds # {} THEN "pc_exist" ELSE "pc_commit"])
    /\ UNCHANGED db

PutCourseExistQ(r) ==
    LET rq == req[r] IN
    /\ rq.pc = "pc_exist"
    /\ Set(r, IF Cardinality(ExistingAmong(rq.prereqIds)) # Cardinality(rq.prereqIds)
                 THEN Respond(rq, 400, "One or more prereqIds do not exist")
              ELSE [rq EXCEPT !.pc = "pc_prereqs"])
    /\ UNCHANGED db

PutCoursePrereqsQ(r) ==
    LET rq == req[r] IN
    /\ rq.pc = "pc_prereqs"
    /\ Set(r, IF NotSelfViolation(rq.id, rq.prereqIds)
                 THEN Respond(rq, 400, "violates check constraint")
              ELSE [rq EXCEPT !.tx.prereqs = rq.prereqIds, !.pc = "pc_commit"])
    /\ UNCHANGED db

\* COMMIT; res.json(course)
PutCourseCommit(r) ==
    LET rq == req[r] tx == rq.tx IN
    /\ rq.pc = "pc_commit"
    /\ courses' = [courses EXCEPT ![tx.id] = tx.row]
    /\ course_prereqs' = PrereqsAfter(course_prereqs, tx.id, tx.replace, tx.prereqs)
    /\ Set(r, Respond(rq, 200, ""))
    /\ UNCHANGED <<users, accounts, userSeq, courseSeq, enrollments, enrollSeq,
                   grades, gradeSeq, clock>>

(***************************************************************************)
(* GET /courses: anyone lists the courses with their available seats.      *)
(***************************************************************************)
\* (mutant) the difference is reported as it is, without GREATEST(..., 0)
AvailableSeats_Raw(limit, count) == limit - count

\* GREATEST(c.enrollment_limit - COALESCE(en.count,0), 0) AS available_seats
AvailableSeats(limit, count) == IF limit - count > 0 THEN limit - count ELSE 0

StartGetCourses(r) ==
    /\ Free(r)
    /\ Receive(r, [Idle EXCEPT !.kind = "getCourses", !.pc = "gc_select"])
    /\ UNCHANGED db

GetCoursesQ(r) ==
    LET rq == req[r] IN
    /\ rq.pc = "gc_select"
    /\ Set(r, [Respond(rq, 200, "") EXCEPT
                 !.seats = [c \in DOMAIN courses |->
                              AvailableSeats(courses[c].enrollment_limit,
                                             EnrolledCount(c))]])
    /\ UNCHANGED db

(***************************************************************************)
(* PUT /users/:id: admin updates a user; the body's role is the only field *)
(* the model follows, name stands for any other field.                     *)
(***************************************************************************)
ROLES == {"STUDENT", "TEACHER", "ADMIN"}

\* requireAuth, requireRole("ADMIN"); 400 "Invalid role"; 400 "No fields to update"
StartPutUser(r, Callers, Ids, RoleValues, NameValues) ==
    /\ Free(r)
    /\ \E u \in Callers, id \in Ids, role \in RoleValues, name \in NameValues :
         LET rq == [Idle EXCEPT !.kind = "putUser", !.user = u, !.role = tokenRole(u),
                                !.id = id, !.bodyRole = role, !.name = name]
         IN  Receive(r, IF ~requireRole({"ADMIN"}, tokenRole(u))
                           THEN Respond(rq, 403, "Forbidden")
                        ELSE IF role # "" /\ role \notin ROLES
                           THEN Respond(rq, 400, "Invalid role")
                        ELSE IF role = "" /\ name = ""
                           THEN Respond(rq, 400, "No fields to update")
                        ELSE [rq EXCEPT !.pc = "pu_update"])
    /\ UNCHANGED db

\* UPDATE users SET role = $1, ... WHERE id = $n RETURNING ...
PutUserQ(r) ==
    LET rq == req[r] IN
    /\ rq.pc = "pu_update"
    /\ IF rq.id \notin DOMAIN users
          THEN /\ Set(r, Respond(rq, 404, "Not found"))
               /\ UNCHANGED db
       ELSE /\ users' = [users EXCEPT ![rq.id] = IF rq.bodyRole # "" THEN rq.bodyRole ELSE @]
            /\ Set(r, Respond(rq, 200, ""))
            /\ UNCHANGED <<accounts, userSeq, courses, courseSeq, course_prereqs,
                           enrollments, enrollSeq, grades, gradeSeq, clock>>

(***************************************************************************)
(* DELETE /users/:id: admin deletes a user.                                *)
(***************************************************************************)
StartDeleteUser(r, Callers, Ids) ==
    /\ Free(r)
    /\ \E u \in Callers, id \in Ids :
         LET rq == [Idle EXCEPT !.kind = "deleteUser", !.user = u,
                                !.role = tokenRole(u), !.id = id]
         IN  Receive(r, IF ~requireRole({"ADMIN"}, tokenRole(u))
                           THEN Respond(rq, 403, "Forbidden")
                        ELSE [rq EXCEPT !.pc = "du_delete"])
    /\ UNCHANGED db

\* DELETE FROM users WHERE id=$1, with the cascades of the schema
DeleteUserQ(r) ==
    LET rq == req[r] u == rq.id IN
    /\ rq.pc = "du_delete"
    /\ IF UserRestricted(u)
          THEN /\ Set(r, Respond(rq, 409,
                  "User has related records; reassign or delete dependents first"))
               /\ UNCHANGED db
       ELSE IF u \notin DOMAIN users
          THEN /\ Set(r, Respond(rq, 404, "Not found"))
               /\ UNCHANGED db
       ELSE /\ users' = [x \in DOMAIN users \ {u} |-> users[x]]
            /\ enrollments' = {e \in enrollments : e.student_id # u}
            /\ grades' = {g \in grades : g.student_id # u}
            /\ Set(r, Respond(rq, 204, ""))
            /\ accounts' = {a \in accounts : a.id # u}
            /\ UNCHANGED <<userSeq, courses, courseSeq, course_prereqs, enrollSeq, gradeSeq, clock>>

(***************************************************************************)
(* POST /auth/register: student self-signup.                               *)
(***************************************************************************)
\* `${left}.${right}`: the names are lower-case letters and digits already
EmailBase(firstName, lastName) == firstName \o <<".">> \o lastName

\* email ILIKE `${base}%@coursehub.io`
Like(email, base) ==
    Len(email) >= Len(base) /\ SubSeq(email, 1, Len(base)) = base

IsDigit(ch) == ch \in {"0", "1", "2", "3", "4", "5", "6", "7", "8", "9"}

\* parseInt(m[1], 10) of a string of digits
RECURSIVE ParseInt(_)
ParseInt(str) ==
    IF str = <<>> THEN 0
    ELSE 10 * ParseInt(SubSeq(str, 1, Len(str) - 1))
         + (CHOOSE n \in 0..9 : Digits(n) = <<str[Len(str)]>>)

\* the suffixes m[1] of the rows that match ^base(\d+)?@coursehub\.io$
Suffixes(rows, base) ==
    {SubSeq(e, Len(base) + 1, Len(e)) :
        e \in {x \in rows : \A k \in (Len(base) + 1)..Len(x) : IsDigit(x[k])}}

\* for (const r of rows): if (n >= next) next = n + 1.  The result does not
\* depend on the order of the rows; they are taken by ascending number.
RECURSIVE ScanSuffixes(_, _)
ScanSuffixes(ns, next) ==
    IF ns = {} THEN next
    ELSE LET n == CHOOSE x \in ns : \A y \in ns : x <= y
         IN  ScanSuffixes(ns \ {n}, IF n >= next THEN n + 1 ELSE next)

generateUniqueEmail(firstName, lastName) ==
    LET base == EmailBase(firstName, lastName)
        rows == {a.email : a \in {x \in accounts : Like(x.email, base)}}
        ns   == {ParseInt(m) : m \in Suffixes(rows, base) \ {<<>>}}
    IN  IF rows = {} THEN base
        ELSE base \o Digits(ScanSuffixes(ns, 2))

\* UNIQUE (email), UNIQUE (student_id): error 23505
AccountUniqueViolation(email, studentNo) ==
    \E a \in accounts : a.email = email \/ a.student_id = studentNo

StartRegister(r, Firsts, Lasts, Passwords, StudentNos) ==
    /\ Free(r)
    /\ \E f \in Firsts, l \in Lasts, pw \in Passwords, sn \in StudentNos :
         LET rq == [Idle EXCEPT !.kind = "register", !.firstName = f,
                                !.lastName = l, !.password = pw, !.studentNo = sn]
         IN  Receive(r, IF f = <<>> \/ l = <<>> \/ pw = ""
                           THEN Respond(rq, 400,
                                  "firstName, lastName, and password are required")
                        ELSE [rq EXCEPT !.pc = "r_email"])
    /\ UNCHANGED db

\* const email = await generateUniqueEmail(firstName, lastName)
RegisterEmailQ(r) ==
    LET rq == req[r] IN
    /\ rq.pc = "r_email"
    /\ Set(r, [rq EXCEPT !.email = generateUniqueEmail(rq.firstName, rq.lastName),
                         !.finalStudentId = rq.studentNo,
                         !.pc = IF rq.studentNo # 0 THEN "r_insert" ELSE "r_sid"])
    /\ UNCHANGED db

\* ensureStudentId without a studentId in the body: MAX over the S<number>
\* ids + 1.  The query puts the set-returning regexp_matches inside MAX, which
\* PostgreSQL 10 and later reject: the statement then throws into the catch.
RegisterStudentIdQ(r) ==
    LET rq == req[r]
        nums == {a.student_id : a \in {x \in accounts : x.student_id # 0}}
        max_num == IF nums = {} THEN FirstStudentNo
                   ELSE CHOOSE n \in nums : \A m \in nums : m <= n
    IN
    /\ rq.pc = "r_sid"
    /\ \/ Set(r, [rq EXCEPT !.finalStudentId = max_num + 1, !.pc = "r_insert"])
       \/ Set(r, Respond(rq, 500, "Server error"))
    /\ UNCHANGED db

\* INSERT INTO users (...) VALUES ('STUDENT', ...) RETURNING ...; jwt.sign
RegisterInsertQ(r) ==
    LET rq == req[r] IN
    /\ rq.pc = "r_insert"
    /\ IF AccountUniqueViolation(rq.email, rq.finalStudentId)
          THEN /\ Set(r, Respond(rq, 409, "Email or studentId already exists"))
               /\ UNCHANGED db
       ELSE /\ users' = [u \in DOMAIN users \cup {userSeq + 1} |->
                           IF u = userSeq + 1 THEN "STUDENT" ELSE users[u]]
            /\ accounts' = accounts \cup
                 {[id |-> userSeq + 1, email |-> rq.email,
                   student_id |-> rq.finalStudentId, password |-> Hash(rq.password)]}
            /\ userSeq' = userSeq + 1
            /\ Set(r, [Respond(rq, 201, "") EXCEPT
                         !.token = [id |-> userSeq + 1, role |-> "STUDENT"]])
            /\ UNCHANGED <<courses, courseSeq, course_prereqs, enrollments, enrollSeq,
                           grades, gradeSeq, clock>>

(***************************************************************************)
(* POST /auth/login.                                                       *)
(***************************************************************************)
\* a body without a password: password is undefined
NoPassword == "undefined"

StartLogin(r, Emails, Passwords) ==
    /\ Free(r)
    /\ \E e \in Emails, pw \in Passwords :
         Receive(r, [Idle EXCEPT !.kind = "login", !.email = e,
                                 !.password = pw, !.pc = "l_select"])
    /\ UNCHANGED db

\* SELECT * FROM users WHERE email=$1
LoginSelectQ(r) ==
    LET rq == req[r]
        rows == {a \in accounts : a.email = rq.email}
    IN
    /\ rq.pc = "l_select"
    /\ IF rows = {}
          THEN Set(r, Respond(rq, 401, "Invalid credentials"))
       ELSE \E a \in rows :
              Set(r, [rq EXCEPT !.pc = "l_compare",
                                !.row = [id |-> a.id, role |-> users[a.id],
                                         password |-> a.password]])
    /\ UNCHANGED db

\* await bcrypt.compare(password, user.password); jwt.sign.  Without a
\* password bcrypt.compare rejects ("data and hash arguments required"); the
\* handler has no try/catch: the rejection is unhandled and no response is
\* sent (Express 4), or the default error handler answers 500 (Express 5).
LoginCompare(r) ==
    LET rq == req[r] IN
    /\ rq.pc = "l_compare"
    /\ IF rq.password = NoPassword
          THEN \/ Set(r, [rq EXCEPT !.pc = "lost"])
               \/ Set(r, Respond(rq, 500, "Internal Server Error"))
       ELSE IF ~Compare(rq.password, rq.row.password)
          THEN Set(r, Respond(rq, 401, "Invalid credentials"))
       ELSE Set(r, [Respond(rq, 200, "") EXCEPT
                      !.token = [id |-> rq.row.id, role |-> rq.row.role],
                      !.row = [rq.row EXCEPT !.password = <<>>]])
    /\ UNCHANGED db

(***************************************************************************)
(* The system.                                                             *)
(***************************************************************************)
\* An enrollments table holding the (student, course) pairs of `pairs`
EnrollmentRows(pairs) ==
    {[id |-> (p[1] - 1) * Cardinality(CourseIds) + p[2],
      student_id |-> p[1], course_id |-> p[2]] : p \in pairs}

\* A grades table with one CS101 row for each student st gives a grade
GradeRows(st) ==
    {[id |-> s, student_id |-> s, course_id |-> CS101,
      value |-> st[s], assigned_at |-> 0] :
        s \in {x \in DOMAIN st : st[x] # NoGrade}}

\* db/seed.sql: student 1 is enrolled in CS101
SeedPairs == {<<1, CS101>>}

\* db/seed.sql and the schema: an admin, a teacher who owns CS101 and CS201,
\* students.  CS201 has any enrollment_limit that CHECK (enrollment_limit >= 0)
\* admits, requires CS101 or (after PUT /courses/2) nothing, holds any set of
\* the students `Who`, whose CS101 grades are given by one of `Tables`.  With
\* `within` the course is not over its limit (a limit lowered by PUT /courses/2
\* can leave it over).
InitDb(Who, Tables, within) ==
    /\ users = [u \in StudentIds \cup {TeacherId, Teacher2Id, AdminId} |-> tokenRole(u)]
    /\ accounts = {SeedAccount(u) : u \in StudentIds \cup {TeacherId, Teacher2Id, AdminId}}
    /\ userSeq = Teacher2Id
    /\ \E lim \in 0..MaxLimit :
         courses = [c \in CourseIds |->
                      [code |-> SeedCode(c), name |-> SeedName(c), credits |-> 3,
                       enrollment_limit |-> IF c = CS201 THEN lim ELSE MaxLimit,
                       teacher_id |-> TeacherId]]
    /\ courseSeq = CS201
    /\ course_prereqs \in {{}, {[course_id |-> CS201, prereq_id |-> CS101]}}
    /\ \E in \in SUBSET Who :
         /\ within => Cardinality(in) <= courses[CS201].enrollment_limit
         /\ enrollments = EnrollmentRows(SeedPairs \cup {<<s, CS201>> : s \in in})
    /\ enrollSeq = NStudents * Cardinality(CourseIds)
    /\ \E st \in Tables : grades = GradeRows(st)
    /\ gradeSeq = NStudents
    /\ clock = 0
    /\ enrollments0 = enrollments
    /\ grades0 = grades
    /\ served = <<>>

\* one grade per student, at the pass/fail boundary
BoundaryTables(Who) == [Who -> {NoGrade, "D", "F"}]

\* one graded student, with any letter
LetterTables(Who) ==
    {[s \in Who |-> IF s = g THEN v ELSE NoGrade] : g \in Who, v \in GradeLetters}

(***************************************************************************)
(* Spec: requests of the students 1..NConc, and of the admin for them, are *)
(* served concurrently.                                                    *)
(***************************************************************************)
Init ==
    /\ InitDb(ConcStudents, BoundaryTables(ConcStudents), TRUE)
    /\ req = [r \in Slots |-> Idle]
    /\ budget = MaxReqs

ConcLists == ListsOver(ConcStudents, MaxConcList) \ {<<>>}

Step(r) ==
    \/ StartEnroll(r, ConcStudents, {CS201})
    \/ EnrollCapQ(r)
    \/ EnrollPrereqQ(r)
    \/ EnrollPassQ(r)
    \/ EnrollInsQ(r)
    \/ StartBulk(r, {TeacherId, AdminId}, {CS201}, ConcLists)
    \/ BulkOwnerQ(r)
    \/ BulkCapQ(r)
    \/ BulkPrereqsQ(r)
    \/ BulkExistsQ(r)
    \/ BulkGradesQ(r)
    \/ BulkInsertQ(r)
    \/ StartUnenrollByCourse(r, ConcStudents, {CS201})
    \/ UnenrollByCourseQ(r)

Next == \E r \in Slots : Step(r)

Spec == Init /\ [][Next]_vars

\* the queries a request in slot r waits for: each returns in the end
Run(r) ==
    \/ EnrollCapQ(r)
    \/ EnrollPrereqQ(r)
    \/ EnrollPassQ(r)
    \/ EnrollInsQ(r)
    \/ BulkOwnerQ(r)
    \/ BulkCapQ(r)
    \/ BulkPrereqsQ(r)
    \/ BulkExistsQ(r)
    \/ BulkGradesQ(r)
    \/ BulkInsertQ(r)
    \/ UnenrollByCourseQ(r)

InitFair ==
    /\ InitDb({1}, BoundaryTables({1}), TRUE)
    /\ req = [r \in Slots |-> Idle]
    /\ budget = MaxReqs

\* student 1, the teachers and the admin send requests, also against a
\* course id that names no course
StepFair(r) ==
    \/ StartEnroll(r, {1}, {CS201})
    \/ StartBulk(r, {TeacherId, Teacher2Id, AdminId}, {CS201, NoCourseId}, ConcLists)
    \/ StartUnenrollByCourse(r, {1}, {CS201})
    \/ Run(r)

NextFair == \E r \in Slots : StepFair(r)

\* SpecFair: concurrent requests, every storage query returning in the end
SpecFair == InitFair /\ [][NextFair]_vars /\ \A r \in Slots : WF_vars(Run(r))

(***************************************************************************)
(* SpecSeq: one request is served alone, from any of the database states.  *)
(***************************************************************************)
InitSeq ==
    /\ InitDb(StudentIds, BoundaryTables(StudentIds) \cup LetterTables(StudentIds), FALSE)
    /\ req = [r \in Slots |-> Idle]
    /\ budget = 1

SeqLists == ListsOver(StudentIds, MaxList)

NextSeq ==
    \/ StartEnroll(1, StudentIds, {0, CS201, NoCourseId})
    \/ EnrollCapQ(1)
    \/ EnrollPrereqQ(1)
    \/ EnrollPassQ(1)
    \/ EnrollInsQ(1)
    \/ StartBulk(1, {TeacherId, AdminId}, {CS201, NoCourseId}, SeqLists)
    \/ BulkOwnerQ(1)
    \/ BulkCapQ(1)
    \/ BulkPrereqsQ(1)
    \/ BulkExistsQ(1)
    \/ BulkGradesQ(1)
    \/ BulkInsertQ(1)
    \/ StartUnenrollByCourse(1, StudentIds, {CS201})
    \/ UnenrollByCourseQ(1)

SpecSeq == InitSeq /\ [][NextSeq]_vars

(***************************************************************************)
(* SpecGrades: grades of student 1 are assigned, and student 1 is enrolled *)
(* in CS201, concurrently.                                                 *)
(***************************************************************************)
InitGrades ==
    /\ InitDb({}, {[s \in StudentIds |-> NoGrade]}, TRUE)
    /\ req = [r \in Slots |-> Idle]
    /\ budget = MaxGradeReqs

StepGrades(r) ==
    \/ StartGrade(r, {TeacherId, AdminId}, {1}, CourseIds, {"B", "F", "E"})
    \/ GradeOwnerQ(r)
    \/ GradeInsertBegin(r)
    \/ GradeInsertCommit(r)
    \/ StartEnroll(r, {1}, {CS201})
    \/ EnrollCapQ(r)
    \/ EnrollPrereqQ(r)
    \/ EnrollPassQ(r)
    \/ EnrollInsQ(r)
    \/ StartBulk(r, {AdminId}, {CS201}, {<<1>>})
    \/ BulkCapQ(r)
    \/ BulkPrereqsQ(r)
    \/ BulkExistsQ(r)
    \/ BulkGradesQ(r)
    \/ BulkInsertQ(r)

NextGrades == \E r \in Slots : StepGrades(r)

SpecGrades == InitGrades /\ [][NextGrades]_vars

(***************************************************************************)
(* SpecRoles: one enrollment request served alone, sent by a caller of any *)
(* role.                                                                   *)
(***************************************************************************)
Callers == {1, TeacherId, Teacher2Id, AdminId}

InitRoles ==
    /\ InitDb(ConcStudents, BoundaryTables(ConcStudents), TRUE)
    /\ req = [r \in Slots |-> Idle]
    /\ budget = 1

NextRoles ==
    \/ StartEnroll(1, Callers, {CS201, NoCourseId})
    \/ EnrollCapQ(1)
    \/ EnrollPrereqQ(1)
    \/ EnrollPassQ(1)
    \/ EnrollInsQ(1)
    \/ StartBulk(1, Callers, {CS201, NoCourseId}, ConcLists)
    \/ BulkOwnerQ(1)
    \/ BulkCapQ(1)
    \/ BulkPrereqsQ(1)
    \/ BulkExistsQ(1)
    \/ BulkGradesQ(1)
    \/ BulkInsertQ(1)

SpecRoles == InitRoles /\ [][NextRoles]_vars

(***************************************************************************)
(* SpecAuth: registrations and logins served concurrently.                 *)
(***************************************************************************)
InitAuth ==
    /\ InitDb({}, {[s \in StudentIds |-> NoGrade]}, TRUE)
    /\ req = [r \in Slots |-> Idle]
    /\ budget = MaxAuthReqs

\* a studentId no other request of the run sends
FreshStudentNo == 2 * FirstStudentNo + budget

StepAuth(r) ==
    \/ StartRegister(r, {<<>>, <<"ann">>}, {<<"lee">>, <<"lee", "2">>}, {"pw"},
                     {0, FreshStudentNo})
    \/ RegisterEmailQ(r)
    \/ RegisterStudentIdQ(r)
    \/ RegisterInsertQ(r)
    \/ StartLogin(r, {SeedEmail(AdminId), <<"ann", ".", "lee">>, <<"nobody">>},
                  {SeedPassword, "pw", NoPassword})
    \/ LoginSelectQ(r)
    \/ LoginCompare(r)

NextAuth == \E r \in Slots : StepAuth(r)

SpecAuth == InitAuth /\ [][NextAuth]_vars

(***************************************************************************)
(* SpecCourses: teachers, the admin and a student create and update        *)
(* courses one request after the other.  The bodies carry prereqIds with   *)
(* duplicates, the course's own id and ids of no course.                   *)
(***************************************************************************)
InitCourses ==
    /\ InitDb({}, BoundaryTables({}), TRUE)
    /\ req = [r \in Slots |-> Idle]
    /\ budget = MaxCourseReqs

\* an id that no course ever has in a run
NeverCourseId == CS201 + MaxCourseReqs + 1

\* prereqIds lists: empty, a duplicate, the own id of CS201 and of the course
\* created first, and the id of no course
PrereqLists ==
    {<<>>, <<CS101>>, <<CS101, CS101>>, <<CS201>>, <<CS201, CS101>>,
     <<CS201 + 1>>, <<CS101, CS201 + 1>>, <<CS101, NeverCourseId>>}

AllFields == {"code", "name", "credits", "enrollment_limit"}

PostBodies ==
    {[given |-> g, code |-> cd, name |-> "Algorithms", credits |-> 3,
      enrollment_limit |-> 1, teacherId |-> 0, prereqList |-> l] :
        g \in {AllFields, AllFields \cup {"prereqIds"}, {"code", "prereqIds"}},
        cd \in {"CS101", "CS301"}, l \in PrereqLists}

PutBodies ==
    {[given |-> g, code |-> cd, name |-> "Algorithms", credits |-> 4,
      enrollment_limit |-> 0, teacherId |-> 0, prereqList |-> l] :
        g \in {{}, {"prereqIds"}, {"name", "credits", "prereqIds"},
               AllFields \cup {"prereqIds"}},
        cd \in {"CS101", "CS202"}, l \in PrereqLists}
    \cup {[given |-> {"enrollment_limit"}, code |-> "", name |-> "", credits |-> 0,
           enrollment_limit |-> -1, teacherId |-> 0, prereqList |-> <<>>]}

NextCourses ==
    \/ StartPostCourse(1, {1, TeacherId, AdminId}, PostBodies)
    \/ PostCourseInsertQ(1)
    \/ PostCourseExistQ(1)
    \/ PostCoursePrereqsQ(1)
    \/ PostCourseCommit(1)
    \/ StartPutCourse(1, {1, TeacherId, Teacher2Id, AdminId},
                      {CS201, CS201 + 1, NeverCourseId}, PutBodies)
    \/ PutCourseOwnerQ(1)
    \/ PutCourseUpdateQ(1)
    \/ PutCourseDeleteQ(1)
    \/ PutCourseExistQ(1)
    \/ PutCoursePrereqsQ(1)
    \/ PutCourseCommit(1)

SpecCourses == InitCourses /\ [][NextCourses]_vars

(***************************************************************************)
(* SpecUsers: the admin and a teacher bulk-enroll lists that name a        *)
(* student, a teacher and no user, student 1 enrolls, and the admin        *)
(* changes roles, one request after the other.                             *)
(***************************************************************************)
InitUsers ==
    /\ InitDb({1}, BoundaryTables({1}), TRUE)
    /\ req = [r \in Slots |-> Idle]
    /\ budget = MaxUserReqs

NextUsers ==
    \/ StartEnroll(1, {1}, {CS201})
    \/ EnrollCapQ(1)
    \/ EnrollPrereqQ(1)
    \/ EnrollPassQ(1)
    \/ EnrollInsQ(1)
    \/ StartBulk(1, {TeacherId, AdminId}, {CS201},
                 ListsOver({1, Teacher2Id, GhostId}, 2) \ {<<>>})
    \/ BulkOwnerQ(1)
    \/ BulkCapQ(1)
    \/ BulkPrereqsQ(1)
    \/ BulkExistsQ(1)
    \/ BulkGradesQ(1)
    \/ BulkInsertQ(1)
    \/ StartPutUser(1, {1, AdminId}, {1, GhostId}, {"", "TEACHER", "STUDENT", "DEAN"},
                    {"", "Regina"})
    \/ PutUserQ(1)

SpecUsers == InitUsers /\ [][NextUsers]_vars

(***************************************************************************)
(* SpecTrip: students 1 and 2 enroll in CS201 and unenroll from it, one    *)
(* request after the other.                                                *)
(***************************************************************************)
InitTrip ==
    /\ InitDb(ConcStudents, BoundaryTables(ConcStudents), TRUE)
    /\ req = [r \in Slots |-> Idle]
    /\ budget = MaxTripReqs

NextTrip ==
    \/ StartEnroll(1, ConcStudents, {CS201})
    \/ EnrollCapQ(1)
    \/ EnrollPrereqQ(1)
    \/ EnrollPassQ(1)
    \/ EnrollInsQ(1)
    \/ StartUnenrollByCourse(1, ConcStudents, CourseIds)
    \/ UnenrollByCourseQ(1)

SpecTrip == InitTrip /\ [][NextTrip]_vars

(***************************************************************************)
(* SpecLimit: the admin or the owner changes the enrollment_limit of       *)
(* CS201, students enroll, the admin bulk-enrolls and anyone lists the     *)
(* courses, one request after the other.                                   *)
(***************************************************************************)
InitLimit ==
    /\ InitDb(ConcStudents, BoundaryTables(ConcStudents), TRUE)
    /\ req = [r \in Slots |-> Idle]
    /\ budget = MaxLimitReqs

LimitBodies ==
    {[given |-> {"enrollment_limit"}, code |-> "", name |-> "", credits |-> 0,
      enrollment_limit |-> lim, teacherId |-> 0, prereqList |-> <<>>] :
        lim \in -1..MaxLimit}

NextLimit ==
    \/ StartPutCourse(1, {TeacherId, AdminId}, {CS201}, LimitBodies)
    \/ PutCourseOwnerQ(1)
    \/ PutCourseUpdateQ(1)
    \/ PutCourseCommit(1)
    \/ StartEnroll(1, ConcStudents, {CS201})
    \/ EnrollCapQ(1)
    \/ EnrollPrereqQ(1)
    \/ EnrollPassQ(1)
    \/ EnrollInsQ(1)
    \/ StartBulk(1, {AdminId}, {CS201}, ConcLists)
    \/ BulkCapQ(1)
    \/ BulkPrereqsQ(1)
    \/ BulkExistsQ(1)
    \/ BulkGradesQ(1)
    \/ BulkInsertQ(1)
    \/ StartGetCourses(1)
    \/ GetCoursesQ(1)

SpecLimit == InitLimit /\ [][NextLimit]_vars

(***************************************************************************)
(* SpecLife: students 1 and 2 enroll and unenroll while courses and users  *)
(* are deleted and grades assigned.                                        *)
(***************************************************************************)
InitLife ==
    /\ InitDb(ConcStudents, BoundaryTables(ConcStudents), TRUE)
    /\ req = [r \in Slots |-> Idle]
    /\ budget = MaxLifeReqs

StepLife(r) ==
    \/ StartEnroll(r, {1}, {CS201})
    \/ EnrollCapQ(r)
    \/ EnrollPrereqQ(r)
    \/ EnrollPassQ(r)
    \/ EnrollInsQ(r)
    \/ StartBulk(r, {AdminId}, {CS201}, {<<2>>})
    \/ BulkCapQ(r)
    \/ BulkPrereqsQ(r)
    \/ BulkExistsQ(r)
    \/ BulkGradesQ(r)
    \/ BulkInsertQ(r)
    \/ StartUnenrollByCourse(r, {1}, CourseIds)
    \/ UnenrollByCourseQ(r)
    \/ StartUnenroll(r, ConcStudents, {e.id : e \in enrollments})
    \/ UnenrollSelectQ(r)
    \/ UnenrollDeleteQ(r)
    \/ StartDeleteCourse(r, {TeacherId, Teacher2Id, AdminId}, CourseIds)
    \/ DeleteCourseOwnerQ(r)
    \/ DeleteCourseQ(r)
    \/ StartDeleteUser(r, {AdminId}, {1, TeacherId, GhostId})
    \/ DeleteUserQ(r)
    \/ StartGrade(r, {AdminId}, {1}, {CS101}, {"B"})
    \/ GradeInsertBegin(r)
    \/ GradeInsertCommit(r)

NextLife == \E r \in Slots : StepLife(r)

SpecLife == InitLife /\ [][NextLife]_vars

(***************************************************************************)
(* Properties.  They read the tables directly, not through the operators   *)
(* the handlers use.                                                       *)
(***************************************************************************)
\* occupancy of course c in an enrollments table
Occupancy(tbl, c) == Cardinality({e \in tbl : e.course_id = c})

\* the rows of (s, c) in an enrollments table
RowsOf(tbl, s, c) == {e \in tbl : e.student_id = s /\ e.course_id = c}

\* the prerequisites of course c
Required(c) == {x.prereq_id : x \in {y \in course_prereqs : y.course_id = c}}

\* the grade rows of (s, p) with the greatest assigned_at
Newest(s, p) ==
    {g \in grades : /\ g.student_id = s /\ g.course_id = p
                    /\ \A h \in grades :
                         (h.student_id = s /\ h.course_id = p)
                            => h.assigned_at <= g.assigned_at}

\* s has, for every prerequisite of c, a latest grade, and it is not F
PrereqsMet(s, c) ==
    \A p \in Required(c) :
        Newest(s, p) # {} /\ \A g \in Newest(s, p) : g.value # "F"

\* s has, for some prerequisite of c, no grade or a latest grade of F
PrereqsUnmet(s, c) ==
    \E p \in Required(c) :
        Newest(s, p) = {} \/ \A g \in Newest(s, p) : g.value = "F"

DoneKind(r, kind) == req[r].pc = "done" /\ req[r].kind = kind

\* C1: for every course, the number of enrollment rows is at most its
\* enrollment limit, whatever the interleaving of the enroll requests (the
\* runs start with every course within its limit, and only unenrolls remove
\* rows).
C1_CapacityInvariant ==
    \A c \in DOMAIN courses :
        Occupancy(enrollments, c) <= courses[c].enrollment_limit

\* C2: for every (student, course) pair there is at most one enrollment row,
\* in every state reached by interleaved single enrolls, bulk enrolls and
\* unenrolls.
C2_NoDuplicates ==
    \A e1 \in enrollments, e2 \in enrollments :
        (e1.student_id = e2.student_id /\ e1.course_id = e2.course_id)
            => e1 = e2

\* C2's case: two single enrolls of the same student for the same course were
\* both in flight before either inserted; one inserted, one was turned away.
C2_Witness ==
    \E r1 \in Slots, r2 \in Slots :
        /\ DoneKind(r1, "enroll") /\ DoneKind(r2, "enroll")
        /\ req[r1].user = req[r2].user /\ req[r1].courseId = req[r2].courseId
        /\ RowsOf(enrollments0, req[r1].user, req[r1].courseId) = {}
        /\ req[r1].status = 201
        /\ req[r2].status = 409 /\ req[r2].error = "Already enrolled"

\* Two single enrolls of one student for one course, the second received
\* while the first had not inserted yet; when it was received the student was
\* eligible: not enrolled, a seat free, prerequisites met.
RacingPair(r1, r2) ==
    /\ r1 # r2
    /\ DoneKind(r1, "enroll") /\ DoneKind(r2, "enroll")
    /\ req[r1].user = req[r2].user /\ req[r1].courseId = req[r2].courseId
    /\ req[r1].courseId \in DOMAIN courses
    /\ RowsOf(enrollments0, req[r1].user, req[r1].courseId) = {}
    /\ Occupancy(enrollments0, req[r1].courseId)
          < courses[req[r1].courseId].enrollment_limit
    /\ PrereqsMet(req[r1].user, req[r1].courseId)

\* C3 as stated: of two concurrent single enrolls of an eligible student for
\* the same course, one answers 201 and the other 409 "Already enrolled".
C3_Original ==
    \A r1 \in Slots, r2 \in Slots :
        (RacingPair(r1, r2) /\ req[r1].status = 201)
            => req[r2].status = 409 /\ req[r2].error = "Already enrolled"

\* C3 amended: exactly one of the two answers 201; the other answers 409,
\* "Already enrolled", or "Course is at capacity" when the seat the first
\* took was the last one.
C3_OneSuccess ==
    \A r1 \in Slots, r2 \in Slots :
        RacingPair(r1, r2) =>
            /\ req[r1].status = 201 \/ req[r2].status = 201
            /\ req[r1].status = 201 =>
                 /\ req[r2].status = 409
                 /\ req[r2].error \in {"Already enrolled", "Course is at capacity"}
                 /\ req[r2].error = "Course is at capacity" =>
                      Occupancy(enrollments0, req[r1].courseId) + 1
                         = courses[req[r1].courseId].enrollment_limit
            /\ Cardinality(RowsOf(enrollments, req[r1].user, req[r1].courseId)) = 1

\* C3's case: the two raced and the loser was told "Already enrolled".
C3_Witness ==
    \E r1 \in Slots, r2 \in Slots :
        /\ RacingPair(r1, r2)
        /\ req[r1].status = 201
        /\ req[r2].status = 409 /\ req[r2].error = "Already enrolled"

\* C5: a bulk enroll of a non-empty list against an existing course, by the
\* admin or the owning teacher, answers 200 with one results entry per input
\* student id, in input order, each a success or a denial with a reason.
C5_OneEntryPerStudent ==
    \A r \in Slots :
        (/\ DoneKind(r, "bulk")
         /\ req[r].courseId \in DOMAIN courses
         /\ Len(req[r].studentIds) > 0
         /\ req[r].status # 403)
        => /\ req[r].status = 200
           /\ Len(req[r].results) = Len(req[r].studentIds)
           /\ \A i \in 1..Len(req[r].studentIds) :
                /\ req[r].results[i].studentId = req[r].studentIds[i]
                /\ \/ req[r].results[i].ok
                   \/ req[r].results[i].reason
                        \in {"capacity", "already_enrolled", "prereq"}

(***************************************************************************)
(* Properties of one request served alone (SpecSeq, slot 1): enrollments0  *)
(* is the table the request found.                                         *)
(***************************************************************************)
\* seats left in course c when the request was received
SeatsAtStart(c) ==
    IF courses[c].enrollment_limit > Occupancy(enrollments0, c)
       THEN courses[c].enrollment_limit - Occupancy(enrollments0, c)
    ELSE 0

\* candidates recorded as admitted before position i
OkBefore(res, i) == Cardinality({j \in 1..(i - 1) : res[j].ok})

OkCount(res) == Cardinality({j \in 1..Len(res) : res[j].ok})

\* a bulk enroll against an existing course has answered
BulkDone ==
    /\ DoneKind(1, "bulk")
    /\ req[1].courseId \in DOMAIN courses
    /\ Len(req[1].studentIds) > 0

\* a single enroll against an existing course has answered
EnrollDone == DoneKind(1, "enroll") /\ req[1].courseId \in DOMAIN courses

\* the candidate at position i was not enrolled when its turn came
FreshAt(i) ==
    /\ RowsOf(enrollments0, req[1].studentIds[i], req[1].courseId) = {}
    /\ \A j \in 1..(i - 1) :
         req[1].studentIds[j] = req[1].studentIds[i] => ~req[1].results[j].ok

\* n distinct candidates, none enrolled, all with the prerequisites met
AllEligible ==
    LET ids == req[1].studentIds c == req[1].courseId IN
    /\ \A i \in 1..Len(ids), j \in 1..Len(ids) : ids[i] = ids[j] => i = j
    /\ \A i \in 1..Len(ids) :
         RowsOf(enrollments0, ids[i], c) = {} /\ PrereqsMet(ids[i], c)

\* C4: bulk ordering.  With k seats left at batch start and n > k distinct
\* candidates, all otherwise eligible, the first k of the list are admitted,
\* every later one is recorded with reason capacity, and seatsLeft is 0.
C4_BulkOrdering ==
    LET ids == req[1].studentIds k == SeatsAtStart(req[1].courseId) IN
    (BulkDone /\ AllEligible /\ Len(ids) > k)
    => /\ req[1].status = 200
       /\ req[1].seatsLeft = 0
       /\ req[1].results =
            [i \in 1..Len(ids) |->
               IF i <= k THEN [studentId |-> ids[i], ok |-> TRUE, reason |-> ""]
               ELSE [studentId |-> ids[i], ok |-> FALSE, reason |-> "capacity"]]
       /\ {e.student_id : e \in {x \in enrollments : x.course_id = req[1].courseId}}
            = {e.student_id : e \in {x \in enrollments0 : x.course_id = req[1].courseId}}
              \cup {ids[i] : i \in 1..k}

\* C4's case: one seat, three eligible candidates.
C4_Witness ==
    /\ BulkDone /\ AllEligible
    /\ Len(req[1].studentIds) = 3
    /\ SeatsAtStart(req[1].courseId) = 1
    /\ req[1].results[1].ok
    /\ req[1].results[2].reason = "capacity"
    /\ req[1].results[3].reason = "capacity"

\* C6 as stated: a student with an unmet prerequisite is denied by single
\* enroll and by bulk enroll with the prerequisite-unmet outcome.
C6_Original ==
    /\ (EnrollDone /\ PrereqsUnmet(req[1].user, req[1].courseId))
       => /\ req[1].status = 409
          /\ req[1].error = "Prerequisites not satisfied"
          /\ enrollments = enrollments0
    /\ BulkDone =>
         \A i \in 1..Len(req[1].studentIds) :
            PrereqsUnmet(req[1].studentIds[i], req[1].courseId)
            => /\ req[1].status = 200
               /\ ~req[1].results[i].ok
               /\ req[1].results[i].reason = "prereq"

\* C6 amended: a student with an unmet prerequisite is always denied and gets
\* no enrollment row; the outcome is prerequisite-unmet unless an earlier
\* check denies first: capacity when the course has no seat (single: occupancy
\* >= limit; bulk: no seat left in the batch), and in bulk already_enrolled
\* when the student has a row.
C6_PrereqDeny ==
    /\ (EnrollDone /\ PrereqsUnmet(req[1].user, req[1].courseId))
       => /\ req[1].status = 409
          /\ req[1].error =
               IF Occupancy(enrollments0, req[1].courseId)
                     >= courses[req[1].courseId].enrollment_limit
                  THEN "Course is at capacity"
               ELSE "Prerequisites not satisfied"
          /\ enrollments = enrollments0
    /\ BulkDone =>
         LET ids == req[1].studentIds c == req[1].courseId res == req[1].results IN
         \A i \in 1..Len(ids) :
            PrereqsUnmet(ids[i], c)
            => /\ req[1].status = 200
               /\ ~res[i].ok
               /\ res[i].reason =
                    IF OkBefore(res, i) >= SeatsAtStart(c) THEN "capacity"
                    ELSE IF RowsOf(enrollments0, ids[i], c) # {} THEN "already_enrolled"
                    ELSE "prereq"
               /\ RowsOf(enrollments, ids[i], c) = RowsOf(enrollments0, ids[i], c)

\* C6's case: a single enroll of a student whose latest prerequisite grade is
\* F was denied for the prerequisite.
C6_Witness ==
    /\ EnrollDone
    /\ \E g \in grades : g.student_id = req[1].user /\ g.value = "F"
    /\ PrereqsUnmet(req[1].user, req[1].courseId)
    /\ req[1].error = "Prerequisites not satisfied"

\* C7: a student whose latest grade for every prerequisite is A+ .. D (or whose
\* course has no prerequisite), who is not enrolled, is admitted when the
\* course is below its limit (bulk: when a seat is left at the student's
\* turn), and exactly one row is created for the pair.
C7_PrereqAdmit ==
    /\ (/\ EnrollDone
        /\ PrereqsMet(req[1].user, req[1].courseId)
        /\ RowsOf(enrollments0, req[1].user, req[1].courseId) = {}
        /\ Occupancy(enrollments0, req[1].courseId)
              < courses[req[1].courseId].enrollment_limit)
       => /\ req[1].status = 201
          /\ Cardinality(RowsOf(enrollments, req[1].user, req[1].courseId)) = 1
          /\ enrollments0 \subseteq enrollments
          /\ Cardinality(enrollments) = Cardinality(enrollments0) + 1
    /\ BulkDone =>
         LET ids == req[1].studentIds c == req[1].courseId res == req[1].results IN
         \A i \in 1..Len(ids) :
            (/\ PrereqsMet(ids[i], c)
             /\ FreshAt(i)
             /\ OkBefore(res, i) < SeatsAtStart(c))
            => /\ req[1].status = 200
               /\ res[i] = [studentId |-> ids[i], ok |-> TRUE, reason |-> ""]
               /\ Cardinality(RowsOf(enrollments, ids[i], c)) = 1

\* C7's case: a single enroll for a course with a prerequisite succeeded on
\* the lowest passing grade.
C7_Witness ==
    /\ EnrollDone
    /\ Required(req[1].courseId) # {}
    /\ \A p \in Required(req[1].courseId) :
         \E g \in Newest(req[1].user, p) : g.value = "D"
    /\ req[1].status = 201

\* C9: in bulk enroll a denied candidate takes no seat: the returned seatsLeft
\* is the seats at batch start minus the candidates admitted, a row is
\* inserted for the admitted only, and a candidate who is eligible at its turn
\* is admitted as long as fewer than that many were admitted before it.
C9_DeniedTakesNoSeat ==
    BulkDone =>
        LET ids == req[1].studentIds c == req[1].courseId res == req[1].results IN
        /\ req[1].status = 200
        /\ req[1].seatsLeft = SeatsAtStart(c) - OkCount(res)
        /\ Occupancy(enrollments, c) = Occupancy(enrollments0, c) + OkCount(res)
        /\ \A i \in 1..Len(ids) :
             res[i].ok <=> (/\ PrereqsMet(ids[i], c)
                            /\ FreshAt(i)
                            /\ OkBefore(res, i) < SeatsAtStart(c))

\* C9's case: two seats, [prerequisite failed with F, eligible, eligible].
C9_Witness ==
    /\ BulkDone
    /\ SeatsAtStart(req[1].courseId) = 2
    /\ Len(req[1].studentIds) = 3
    /\ \E g \in grades : g.student_id = req[1].studentIds[1] /\ g.value = "F"
    /\ req[1].results[1].reason = "prereq"
    /\ req[1].results[2].ok /\ req[1].results[3].ok
    /\ req[1].seatsLeft = 0

\* the student of the single enroll had a row for the course already
ReEnroll ==
    EnrollDone /\ RowsOf(enrollments0, req[1].user, req[1].courseId) # {}

\* C10 as stated: a single enroll by a student who already has a row for the
\* course answers 409 "Already enrolled" and leaves the occupancy unchanged.
C10_Original ==
    ReEnroll
    => /\ req[1].status = 409 /\ req[1].error = "Already enrolled"
       /\ Occupancy(enrollments, req[1].courseId)
            = Occupancy(enrollments0, req[1].courseId)

\* C10 amended: such a request is always denied with 409 and leaves the
\* enrollments unchanged; the error is "Course is at capacity" when occupancy
\* >= limit, else "Prerequisites not satisfied" when a prerequisite is unmet,
\* else "Already enrolled".
C10_ReEnrollDenied ==
    ReEnroll
    => /\ req[1].status = 409
       /\ req[1].error =
            IF Occupancy(enrollments0, req[1].courseId)
                  >= courses[req[1].courseId].enrollment_limit
               THEN "Course is at capacity"
            ELSE IF PrereqsUnmet(req[1].user, req[1].courseId)
               THEN "Prerequisites not satisfied"
            ELSE "Already enrolled"
       /\ enrollments = enrollments0

\* C10's case: the re-enroll reached the insert and was told "Already enrolled".
C10_Witness == ReEnroll /\ req[1].error = "Already enrolled"

(***************************************************************************)
(* Properties of the prerequisite check while grades are assigned          *)
(* (SpecGrades).                                                           *)
(***************************************************************************)
\* for every prerequisite of c, at most one grade row of s is the newest
UniqueNewest(s, c) == \A p \in Required(c) : Cardinality(Newest(s, p)) <= 1

\* C8: latest-grade semantics.  When the prerequisite check of single enroll
\* (passQ) or of bulk enroll (the grades query of a candidate) runs and, for
\* each prerequisite, one grade row of the student has the greatest
\* assigned_at, the check passes exactly when that row's value is not F for
\* every prerequisite, whatever the ids (the insertion order) of the rows.
C8_LatestGrade ==
    [][\A r \in Slots :
         LET rq == req[r] IN
         /\ (rq.pc = "passQ" /\ req'[r] # rq /\ UniqueNewest(rq.user, rq.courseId))
            => IF PrereqsMet(rq.user, rq.courseId)
                  THEN req'[r].pc = "insQ"
               ELSE /\ req'[r].pc = "done"
                    /\ req'[r].status = 409
                    /\ req'[r].error = "Prerequisites not satisfied"
         /\ (/\ rq.pc = "b_grades" /\ req'[r] # rq
             /\ UniqueNewest(rq.studentIds[rq.i], rq.courseId))
            => IF PrereqsMet(rq.studentIds[rq.i], rq.courseId)
                  THEN req'[r].pc = "b_insert"
               ELSE /\ Len(req'[r].results) = Len(rq.results) + 1
                    /\ req'[r].results[Len(rq.results) + 1]
                         = [studentId |-> rq.studentIds[rq.i], ok |-> FALSE,
                            reason |-> "prereq"]]_vars

\* C8's case: the student had an F and a B for the prerequisite when the
\* enroll request was received, the B with the later timestamp and the
\* smaller id (inserted first), no grade was added since, and the enroll
\* succeeded.
C8_Witness ==
    \E r \in Slots :
        /\ DoneKind(r, "enroll") /\ req[r].status = 201
        /\ budget = 0 /\ grades = grades0
        /\ Required(req[r].courseId) # {}
        /\ \E p \in Required(req[r].courseId) :
             \E g1 \in grades0, g2 \in grades0 :
                /\ g1.student_id = req[r].user /\ g1.course_id = p
                /\ g2.student_id = req[r].user /\ g2.course_id = p
                /\ g1.value = "B" /\ g2.value = "F"
                /\ g1.id < g2.id /\ g1.assigned_at > g2.assigned_at

(***************************************************************************)
(* Properties of requests against a course id that names no course         *)
(* (SpecSeq).                                                              *)
(***************************************************************************)
\* C11: unknown course.  A single enroll against a course id that names no
\* course answers 404 "Course not found"; a bulk enroll against it, sent by
\* the TEACHER or by the ADMIN, answers 404 with no per-student results; in
\* both cases the enrollments are left as they were.
C11_UnknownCourse ==
    /\ (/\ DoneKind(1, "enroll")
        /\ req[1].courseId # 0
        /\ req[1].courseId \notin DOMAIN courses)
       => /\ req[1].status = 404
          /\ req[1].error = "Course not found"
          /\ enrollments = enrollments0
    /\ (/\ DoneKind(1, "bulk")
        /\ Len(req[1].studentIds) > 0
        /\ req[1].courseId # 0
        /\ req[1].courseId \notin DOMAIN courses)
       => /\ req[1].status = 404
          /\ req[1].error = "Course not found"
          /\ req[1].results = <<>>
          /\ enrollments = enrollments0

\* C11's case: the admin's bulk enroll against an unknown course was answered.
C11_Witness ==
    /\ DoneKind(1, "bulk")
    /\ req[1].role = "ADMIN"
    /\ Len(req[1].studentIds) = MaxList
    /\ req[1].courseId \notin DOMAIN courses
    /\ req[1].status = 404

(***************************************************************************)
(* Properties of the tables across all operations (SpecLife).              *)
(***************************************************************************)
\* slot r takes a step of a request of one of the kinds
StepOf(r, kinds) == req[r].kind \in kinds /\ req'[r] # req[r]

\* C12: enrollment lifecycle.  In every step, an enrollment row is added only
\* by the insert of a single or bulk enroll, and an enrollment row is removed
\* only by a step of an unenroll request (by enrollment id or by course); no
\* other operation adds or removes enrollment rows.
C12_EnrollmentLifecycle ==
    [][/\ (enrollments' \ enrollments # {})
          => \E r \in Slots : /\ req[r].pc \in {"insQ", "b_insert"}
                              /\ req'[r] # req[r]
       /\ (enrollments \ enrollments' # {})
          => \E r \in Slots : StepOf(r, {"unenroll", "unenrollById"})]_vars

\* C13: the grade ledger is append-only.  In every step every grade row that
\* exists is kept as it is: the set of grade rows only grows.
C13_GradesAppendOnly == [][grades \subseteq grades']_vars

\* course c exists and has enrollment rows, or prerequisite edges naming it
HasRelated(c) ==
    /\ c \in DOMAIN courses
    /\ \/ \E e \in enrollments : e.course_id = c
       \/ \E p \in course_prereqs : p.course_id = c \/ p.prereq_id = c

\* C19: when the DELETE statement of DELETE /courses/:id runs for a course
\* that still has enrollments or prerequisite edges referencing it, the
\* request answers 409 "Course has related records; remove dependencies
\* first" and the course, the enrollments and the prerequisite edges are
\* unchanged.
C19_DeleteCourseRejected ==
    [][\A r \in Slots :
         (req[r].pc = "dc_delete" /\ req'[r] # req[r] /\ HasRelated(req[r].id))
         => /\ req'[r].status = 409
            /\ req'[r].error = "Course has related records; remove dependencies first"
            /\ courses' = courses
            /\ enrollments' = enrollments
            /\ course_prereqs' = course_prereqs]_vars

(***************************************************************************)
(* Single enroll and bulk enroll of one student compared (SpecSeq).  Both  *)
(* are compared with one rule read from the tables the request found.      *)
(***************************************************************************)
\* the outcome kind of an answered single enroll
SingleKind(rq) ==
    IF rq.status = 201 THEN "success"
    ELSE IF rq.status = 404 THEN "course_not_found"
    ELSE IF rq.status = 409 /\ rq.error = "Course is at capacity" THEN "capacity"
    ELSE IF rq.status = 409 /\ rq.error = "Prerequisites not satisfied" THEN "prereq"
    ELSE IF rq.status = 409 /\ rq.error = "Already enrolled" THEN "already_enrolled"
    ELSE "fault"

\* the outcome kind of an answered bulk enroll of one student
BulkKind(rq) ==
    IF rq.status = 404 THEN "course_not_found"
    ELSE IF rq.status # 200 \/ Len(rq.results) # 1 THEN "fault"
    ELSE IF rq.results[1].ok THEN "success"
    ELSE rq.results[1].reason

\* the outcome of enrolling s in c by the order of single enroll: course,
\* capacity, prerequisites, duplicate
RuleKind(s, c) ==
    IF c \notin DOMAIN courses THEN "course_not_found"
    ELSE IF Occupancy(enrollments0, c) >= courses[c].enrollment_limit THEN "capacity"
    ELSE IF ~PrereqsMet(s, c) THEN "prereq"
    ELSE IF RowsOf(enrollments0, s, c) # {} THEN "already_enrolled"
    ELSE "success"

\* the enrollments the rule leaves: one more row on success, else the same
RuleRows(s, c) ==
    IF RuleKind(s, c) = "success"
       THEN enrollments0 \cup {[id |-> enrollSeq, student_id |-> s, course_id |-> c]}
    ELSE enrollments0

\* a student's single enroll has answered
SingleServed == DoneKind(1, "enroll") /\ req[1].courseId # 0

\* a bulk enroll of a one-element list has answered
BulkOneServed ==
    DoneKind(1, "bulk") /\ req[1].courseId # 0 /\ Len(req[1].studentIds) = 1

\* s already has a row for c, lacks a prerequisite, and c has a free seat
EnrolledAndUnmet(s, c) ==
    /\ c \in DOMAIN courses
    /\ Occupancy(enrollments0, c) < courses[c].enrollment_limit
    /\ RowsOf(enrollments0, s, c) # {}
    /\ ~PrereqsMet(s, c)

\* C14 as stated: served alone from the same state, a single enroll by s and
\* a bulk enroll of [s] give the same outcome kind and the same enrollments
\* (both agree with the one rule).
C14_Original ==
    /\ SingleServed
       => /\ SingleKind(req[1]) = RuleKind(req[1].user, req[1].courseId)
          /\ enrollments = RuleRows(req[1].user, req[1].courseId)
    /\ BulkOneServed
       => /\ BulkKind(req[1]) = RuleKind(req[1].studentIds[1], req[1].courseId)
          /\ enrollments = RuleRows(req[1].studentIds[1], req[1].courseId)

\* C14 amended: served alone from the same state, a single enroll by s and a
\* bulk enroll of [s] leave the same enrollments and give the same outcome
\* kind, except when s is already enrolled, lacks a prerequisite and the
\* course has a free seat: single enroll then answers prerequisite unmet and
\* bulk enroll already enrolled.
C14_SameRules ==
    /\ SingleServed
       => /\ SingleKind(req[1]) = RuleKind(req[1].user, req[1].courseId)
          /\ enrollments = RuleRows(req[1].user, req[1].courseId)
    /\ BulkOneServed
       => /\ BulkKind(req[1]) =
               IF EnrolledAndUnmet(req[1].studentIds[1], req[1].courseId)
                  THEN "already_enrolled"
               ELSE RuleKind(req[1].studentIds[1], req[1].courseId)
          /\ enrollments = RuleRows(req[1].studentIds[1], req[1].courseId)

\* C14's case: a bulk enroll of one student who is enrolled and lacks the
\* prerequisite was answered.
C14_Witness ==
    /\ BulkOneServed
    /\ EnrolledAndUnmet(req[1].studentIds[1], req[1].courseId)
    /\ req[1].status = 200

(***************************************************************************)
(* Termination of the enroll requests (SpecFair).                          *)
(***************************************************************************)
\* slot r holds a request that has not answered yet
Busy(r) == req[r].pc \notin {"idle", "done"}

\* every request in flight answers in the end
EveryRequestAnswers == \A r \in Slots : Busy(r) ~> (req[r].pc = "done")

\* a response is sent once: it stays until the slot takes the next request
AnsweredOnce ==
    [][\A r \in Slots :
         req[r].pc = "done" => (req'[r] = req[r] \/ budget' < budget)]_vars

\* whatever the other requests do, a request in flight can take its next step
NoWaiting == [](\A r \in Slots : Busy(r) => ENABLED <<Run(r)>>_vars)

\* C15 as stated: every single-enroll and every bulk-enroll request answers
\* in the end, once, waiting on no other request, and a bulk enroll over n
\* ids answers after visiting each of the n list positions.
C15_Original ==
    /\ EveryRequestAnswers
    /\ AnsweredOnce
    /\ NoWaiting
    /\ [](\A r \in Slots :
            DoneKind(r, "bulk") => Len(req[r].results) = Len(req[r].studentIds))

\* C15 amended: every single-enroll and every bulk-enroll request answers in
\* the end, once, waiting on no other request.  A bulk enroll visits the list
\* positions in order, each at most once, and answers with results (200) only
\* after visiting all n; a request rejected before the loop (400, 403, 404) or
\* ended by a storage error (500) answers without visiting the rest.
C15_Termination ==
    /\ EveryRequestAnswers
    /\ AnsweredOnce
    /\ NoWaiting
    /\ [][\A r \in Slots :
            (req[r].pc \in {"b_exists", "b_grades", "b_insert"} /\ req'[r] # req[r])
            => /\ req[r].i = Len(req[r].results) + 1
               /\ req[r].i <= Len(req[r].studentIds)
               /\ \/ /\ req'[r].pc \in {"b_exists", "b_grades", "b_insert"}
                     /\ req'[r].i >= req[r].i
                     /\ req'[r].i = Len(req'[r].results) + 1
                     /\ \A k \in 1..Len(req[r].results) :
                          req'[r].results[k] = req[r].results[k]
                  \/ /\ req'[r].pc = "done"
                     /\ req'[r].status \in {200, 500}
                     /\ req'[r].status = 200
                        => /\ Len(req'[r].results) = Len(req[r].studentIds)
                           /\ \A k \in 1..Len(req[r].results) :
                                req'[r].results[k] = req[r].results[k]]_vars

\* C15's case: both slots have answered, one a single enroll and one a bulk
\* enroll that visited two list positions.
C15_Witness ==
    \E r1 \in Slots, r2 \in Slots :
        /\ DoneKind(r1, "enroll") /\ req[r1].status = 201
        /\ DoneKind(r2, "bulk") /\ req[r2].status = 200
        /\ Len(req[r2].results) = MaxConcList

(***************************************************************************)
(* Roles and ownership on enrollment writes (SpecRoles).                   *)
(***************************************************************************)
\* the role a caller's token carries
RoleOf(u) ==
    IF u \in 1..NStudents THEN "STUDENT"
    ELSE IF u = AdminId THEN "ADMIN" ELSE "TEACHER"

\* the request in slot 1 is a bulk enroll by a teacher for a course of
\* another teacher
ForeignTeacher ==
    /\ req[1].kind = "bulk"
    /\ RoleOf(req[1].user) = "TEACHER"
    /\ req[1].courseId \in DOMAIN courses
    /\ courses[req[1].courseId].teacher_id # req[1].user

\* C16: a single enroll runs its queries only for a STUDENT caller and a bulk
\* enroll only for a TEACHER or ADMIN caller; any other caller is answered 403
\* "Forbidden".  A TEACHER's bulk enroll for a course of another teacher stops
\* at the ownership query and is answered 403 "Not your course".  Every
\* request rejected so leaves the enrollments unchanged.
C16_RolesEnforced ==
    /\ (req[1].kind = "enroll" /\ RoleOf(req[1].user) # "STUDENT")
       => /\ DoneKind(1, "enroll")
          /\ req[1].status = 403 /\ req[1].error = "Forbidden"
          /\ enrollments = enrollments0
    /\ (req[1].kind = "bulk" /\ RoleOf(req[1].user) \notin {"TEACHER", "ADMIN"})
       => /\ DoneKind(1, "bulk")
          /\ req[1].status = 403 /\ req[1].error = "Forbidden"
          /\ enrollments = enrollments0
    /\ ForeignTeacher
       => /\ req[1].pc \in {"b_owner", "done"}
          /\ enrollments = enrollments0
          /\ req[1].pc = "done"
             => /\ req[1].status = 403 /\ req[1].error = "Not your course"
                /\ req[1].results = <<>>

\* C16's case: a teacher's bulk enroll for another teacher's course was
\* answered.
C16_Witness == ForeignTeacher /\ req[1].pc = "done" /\ req[1].status = 403

(***************************************************************************)
(* Registration and login (SpecAuth).                                      *)
(***************************************************************************)
\* the address is the base first.last, or the base followed by a number
BaseOrSuffixed(email, base) ==
    /\ Len(email) >= Len(base)
    /\ \A k \in 1..Len(base) : email[k] = base[k]
    /\ \A k \in (Len(base) + 1)..Len(email) :
         email[k] \in {"0", "1", "2", "3", "4", "5", "6", "7", "8", "9"}

\* a registration with both names, a password and its own studentId answered
Registered(r) ==
    /\ DoneKind(r, "register")
    /\ req[r].firstName # <<>> /\ req[r].lastName # <<>> /\ req[r].password # ""
    /\ req[r].studentNo # 0

\* C17: no two users share an email, and every registration (with names, a
\* password and a studentId of its own) is created, with the address
\* first.last or, when that is taken, first.last followed by a number; it is
\* never rejected, whatever other registrations run at the same time.
C17_UniqueEmail ==
    /\ \A a1 \in accounts, a2 \in accounts : a1.email = a2.email => a1 = a2
    /\ \A r \in Slots :
         Registered(r)
         => /\ req[r].status = 201
            /\ BaseOrSuffixed(req[r].email,
                              req[r].firstName \o <<".">> \o req[r].lastName)
            /\ \E a \in accounts : a.id = req[r].token.id /\ a.email = req[r].email

\* C18: login rejects bad credentials.  A login whose email matches no user,
\* or whose password is not the one the stored hash was made from, is answered
\* 401 with an error and no token; a login with a matching email and password
\* is answered 200 with a token that carries the user's id and role.
C18_LoginRejects ==
    [][\A r \in Slots :
         /\ (/\ req[r].pc = "l_select" /\ req'[r] # req[r]
             /\ \A a \in accounts : a.email # req[r].email)
            => /\ req'[r].pc = "done" /\ req'[r].status = 401
               /\ req'[r].error # "" /\ req'[r].token.id = 0
         /\ (req[r].pc = "l_compare" /\ req'[r] # req[r])
            => IF req[r].row.password = <<"$2b$10$", req[r].password>>
                  THEN /\ req'[r].pc = "done" /\ req'[r].status = 200
                       /\ req'[r].token.id = req[r].row.id
                       /\ req'[r].token.role = req[r].row.role
               ELSE /\ req'[r].pc = "done" /\ req'[r].status = 401
                    /\ req'[r].error # "" /\ req'[r].token.id = 0]_vars

\* the seats of c are all taken in the current enrollments table
Full(c) ==
    Cardinality({e \in enrollments : e.course_id = c}) >= courses[c].enrollment_limit

\* C20: single-enroll check order.  The course lookup is the first query: an
\* unknown course is answered 404 there.  When the occupancy read by that
\* query is at least the limit, the request ends 409 "Course is at capacity",
\* whether or not the student is enrolled or has unmet prerequisites.  The
\* prerequisite queries come only after the capacity check passed, the insert
\* only after the prerequisite check, and a request whose student has an unmet
\* prerequisite at the grade query ends 409 "Prerequisites not satisfied"
\* without reaching the insert or changing the enrollments.
C20_CheckOrder ==
    [][\A r \in Slots :
         (req[r].kind = "enroll" /\ req'[r] # req[r] /\ req[r].pc # "done")
         => LET rq == req[r] s == rq.user c == rq.courseId IN
            /\ rq.pc = "capQ"
               => /\ c \notin DOMAIN courses
                     => req'[r].pc = "done" /\ req'[r].status = 404
                  /\ (c \in DOMAIN courses /\ Full(c))
                     => /\ req'[r].pc = "done" /\ req'[r].status = 409
                        /\ req'[r].error = "Course is at capacity"
                  /\ (c \in DOMAIN courses /\ ~Full(c)) => req'[r].pc = "prereqQ"
            /\ req'[r].pc = "prereqQ" => rq.pc = "capQ"
            /\ req'[r].pc = "passQ" => rq.pc = "prereqQ"
            /\ req'[r].pc = "insQ"
               => /\ rq.pc \in {"prereqQ", "passQ"}
                  /\ ~PrereqsUnmet(s, c)
            /\ (rq.pc = "passQ" /\ PrereqsUnmet(s, c))
               => /\ req'[r].pc = "done" /\ req'[r].status = 409
                  /\ req'[r].error = "Prerequisites not satisfied"
            /\ enrollments' # enrollments => rq.pc = "insQ"]_vars

\* a full course answered "at capacity" to a student who is already enrolled
\* and has an unmet prerequisite
C20_Witness ==
    \E r \in Slots :
        /\ DoneKind(r, "enroll")
        /\ req[r].error = "Course is at capacity"
        /\ enrollments = enrollments0
        /\ \E e \in enrollments :
             e.student_id = req[r].user /\ e.course_id = req[r].courseId
        /\ PrereqsUnmet(req[r].user, req[r].courseId)

\* positions of the list already handled once the step of rq is over
Handled(rq) == IF rq.pc = "b_prereqs" THEN 0 ELSE rq.i

\* C21: bulk enroll does not short-circuit.  When a step of a bulk request
\* leaves the local seat counter at 0 (the counter read at batch start was 0,
\* or an insert took the last seat), the same step records every remaining
\* candidate with reason "capacity" and answers 200 with one result per
\* candidate: no exists query, grade query or insert is made for them, and
\* the only row the step may add is the one of the candidate just inserted.
\* A ledger query of the loop is reached only with a positive counter.
C21_NoShortCircuit ==
    [][\A r \in Slots :
         LET rq == req[r] IN
         /\ (req'[r].kind = "bulk" /\ req'[r].pc \in {"b_exists", "b_grades", "b_insert"})
            => req'[r].seatsLeft > 0
         /\ (/\ rq.kind = "bulk" /\ req'[r] # rq
             /\ rq.pc \in {"b_prereqs", "b_insert"}
             /\ req'[r].status # 500
             /\ req'[r].seatsLeft <= 0)
            => /\ req'[r].pc = "done" /\ req'[r].status = 200
               /\ Len(req'[r].results) = Len(rq.studentIds)
               /\ \A k \in (Handled(rq) + 1)..Len(rq.studentIds) :
                    req'[r].results[k] =
                       [studentId |-> rq.studentIds[k], ok |-> FALSE, reason |-> "capacity"]
               /\ \A e \in enrollments' \ enrollments :
                    rq.pc = "b_insert" /\ e.student_id = rq.studentIds[rq.i]
               /\ enrollments \subseteq enrollments']_vars

\* a batch answered after an admission took the last seat, with a later
\* candidate recorded "capacity" although that candidate was already enrolled
\* and had an unmet prerequisite, and not the last of the list
C21_Witness ==
    \E r \in Slots :
        /\ DoneKind(r, "bulk") /\ req[r].status = 200
        /\ \E j \in 1..Len(req[r].results), k \in 1..Len(req[r].results) :
             /\ j < k /\ k < Len(req[r].results)
             /\ req[r].results[j].ok
             /\ req[r].results[k].reason = "capacity"
             /\ \E e \in enrollments0 : e.student_id = req[r].studentIds[k]
                                         /\ e.course_id = req[r].courseId
             /\ PrereqsUnmet(req[r].studentIds[k], req[r].courseId)

\* success entries of a results list
Successes(res) == Cardinality({j \in DOMAIN res : res[j].ok})

\* C22: bulk seat accounting.  The capacity query sets the counter to
\* max(0, limit - occupancy) once; after it, every step of the batch lowers
\* the counter by exactly the number of success entries it appends and inserts
\* exactly that many enrollment rows, the counter never goes below 0, and the
\* seatsLeft of the 200 answer is the counter (so it equals the initial value
\* minus the number of success entries in results).
C22_SeatAccounting ==
    [][\A r \in Slots :
         LET rq == req[r] c == rq.courseId IN
         (rq.kind = "bulk" /\ req'[r] # rq /\ rq.pc # "done")
         => /\ (rq.pc = "b_cap" /\ c \in DOMAIN courses)
               => LET free == courses[c].enrollment_limit
                                - Cardinality({e \in enrollments : e.course_id = c})
                  IN  /\ req'[r].seatsLeft = IF free > 0 THEN free ELSE 0
                      /\ req'[r].results = <<>>
            /\ rq.pc \in {"b_prereqs", "b_exists", "b_grades", "b_insert"}
               => /\ req'[r].seatsLeft >= 0
                  /\ req'[r].status # 500
                     => /\ rq.seatsLeft - req'[r].seatsLeft
                             = Successes(req'[r].results) - Successes(rq.results)
                        /\ Cardinality(enrollments' \ enrollments)
                             = Successes(req'[r].results) - Successes(rq.results)
                  /\ req'[r].status = 500 => enrollments' = enrollments
                  /\ enrollments \subseteq enrollments']_vars

\* a batch that found two seats, admitted one candidate, denied another for a
\* reason other than capacity, and returned seatsLeft 1
C22_Witness ==
    /\ BulkDone /\ req[1].status = 200
    /\ SeatsAtStart(req[1].courseId) = 2
    /\ req[1].seatsLeft = 1
    /\ Successes(req[1].results) = 1
    /\ Cardinality(enrollments \ enrollments0) = 1
    /\ \E k \in 1..Len(req[1].results) :
         ~req[1].results[k].ok /\ req[1].results[k].reason # "capacity"

\* the enrollment set, the grade records, the courses and the prerequisite
\* edges are the same after the step as before it
TablesKept ==
    /\ enrollments' = enrollments /\ grades' = grades
    /\ courses' = courses /\ course_prereqs' = course_prereqs

\* students of the success entries a step appended to the results of slot r
NewlyAdmitted(r) ==
    {req'[r].results[k].studentId :
        k \in {j \in (Len(req[r].results) + 1)..Len(req'[r].results) :
                  req'[r].results[j].ok}}

\* C23: a denied enrollment writes nothing.  The step on which a single
\* enroll ends 404 (course not found) or 409 (capacity, prerequisites not
\* satisfied, already enrolled) leaves enrollments, grades, courses and
\* prerequisite edges unchanged.  A step of a bulk enroll never touches
\* grades, courses or prerequisite edges, removes no enrollment, and adds
\* rows only for candidates it records as admitted: a step that records
\* denials only adds nothing.
C23_DenialWritesNothing ==
    [][\A r \in Slots :
         LET rq == req[r] IN
         /\ (/\ rq.kind = "enroll" /\ rq.pc # "done" /\ req'[r].pc = "done"
             /\ req'[r].status \in {404, 409})
            => TablesKept
         /\ (rq.kind = "bulk" /\ rq.pc \notin {"done", "idle"} /\ req'[r] # rq)
            => /\ grades' = grades /\ courses' = courses
               /\ course_prereqs' = course_prereqs
               /\ enrollments \subseteq enrollments'
               /\ req'[r].status # 500
                  => \A e \in enrollments' \ enrollments :
                        e.student_id \in NewlyAdmitted(r)
               /\ req'[r].status = 500 => enrollments' = enrollments]_vars

\* a batch of three candidates, all denied, some as already enrolled and
\* some for a prerequisite, that left the enrollments as it found them
C23_Witness ==
    /\ BulkDone /\ req[1].status = 200
    /\ Len(req[1].results) = 3
    /\ {req[1].results[k].reason : k \in 1..Len(req[1].results)}
         = {"already_enrolled", "prereq"}
    /\ enrollments = enrollments0

\* the ids a request's prereqIds list names
Named(rq) == {rq.prereqList[k] : k \in DOMAIN rq.prereqList}

\* C24: no self-prerequisite.  After every step of a course create or update,
\* no prerequisite edge has a course as its own prerequisite; and a request
\* whose prereqIds name the course's own id is not rejected for it: when every
\* other id it names is a course, the existence check passes, the insert of
\* the edges passes, and the edges committed for the course are the named ids
\* without its own.
C24_NoSelfPrereq ==
    [][/\ \A e \in course_prereqs' : e.course_id # e.prereq_id
       /\ \A r \in Slots :
            LET rq == req[r] IN
            (rq.kind \in {"postCourse", "putCourse"} /\ req'[r] # rq /\ rq.id \in Named(rq))
            => /\ (rq.pc \in {"cc_exist", "pc_exist"}
                   /\ Named(rq) \ {rq.id} \subseteq DOMAIN courses)
                  => req'[r].pc \in {"cc_prereqs", "pc_prereqs"}
               /\ rq.pc \in {"cc_prereqs", "pc_prereqs"}
                  => req'[r].pc \in {"cc_commit", "pc_commit"}
               /\ (rq.pc \in {"cc_commit", "pc_commit"} /\ "prereqIds" \in rq.given)
                  => /\ req'[r].status \in {200, 201}
                     /\ {e.prereq_id : e \in {x \in course_prereqs' : x.course_id = rq.id}}
                          = Named(rq) \ {rq.id}]_vars

\* a create or update that named the course's own id next to CS101 succeeded,
\* and the course requires CS101
C24_Witness ==
    \E r \in Slots :
        /\ req[r].pc = "done" /\ req[r].kind \in {"postCourse", "putCourse"}
        /\ req[r].status \in {200, 201}
        /\ "prereqIds" \in req[r].given
        /\ Named(req[r]) = {req[r].id, CS101}
        /\ [course_id |-> req[r].id, prereq_id |-> CS101] \in course_prereqs

\* C25: course update is all-or-nothing.  No step of a PUT /courses/:id
\* changes the courses or the prerequisite edges except the one that answers
\* 200; a request whose prereqIds name a course that does not exist is never
\* answered 200, so its course keeps its fields and its prerequisite set; and
\* when a request carrying prereqIds is answered 200, the course's
\* prerequisite set is exactly the named ids without the course's own id.
C25_UpdateAllOrNothing ==
    [][\A r \in Slots :
         LET rq == req[r] IN
         (rq.kind = "putCourse" /\ rq.pc \notin {"idle", "done"} /\ req'[r] # rq)
         => /\ req'[r].status # 200
               => courses' = courses /\ course_prereqs' = course_prereqs
            /\ ("prereqIds" \in rq.given /\ ~(Named(rq) \subseteq DOMAIN courses))
               => /\ req'[r].status # 200
                  /\ req'[r].pc = "done" => req'[r].status \in {400, 403, 404, 409}
            /\ req'[r].status = 200
               => /\ DOMAIN courses' = DOMAIN courses
                  /\ \A c \in DOMAIN courses \ {rq.id} : courses'[c] = courses[c]
                  /\ \A e \in course_prereqs \cup course_prereqs' :
                        e.course_id # rq.id
                        => (e \in course_prereqs <=> e \in course_prereqs')
                  /\ {e.prereq_id : e \in {x \in course_prereqs' : x.course_id = rq.id}}
                       = IF "prereqIds" \in rq.given THEN Named(rq) \ {rq.id}
                         ELSE {e.prereq_id :
                                 e \in {x \in course_prereqs : x.course_id = rq.id}}]_vars

\* an update of CS201 that carried new fields and named a course that does
\* not exist was answered 400, and CS201 is as seeded
C25_Witness ==
    \E r \in Slots :
        /\ req[r].pc = "done" /\ req[r].kind = "putCourse"
        /\ req[r].status = 400
        /\ req[r].error = "One or more prereqIds do not exist"
        /\ req[r].id = CS201
        /\ {"code", "enrollment_limit"} \subseteq req[r].given
        /\ req[r].code # "CS201"
        /\ courses[CS201].code = "CS201" /\ courses[CS201].name = "Data Structures"
        /\ courses[CS201].credits = 3
        /\ [course_id |-> CS201, prereq_id |-> CS101] \in course_prereqs

\* what C26 says of a step of DELETE /enrollments/:enrollmentId before its
\* DELETE statement, and of DELETE /enrollments/by-course/:courseId
UnenrollChecks(r) ==
    LET rq == req[r]
        target == {e \in enrollments : e.id = rq.id}
        mine == {e \in enrollments :
                    e.student_id = rq.user /\ e.course_id = rq.courseId}
    IN
    /\ (rq.kind = "unenrollById" /\ rq.pc = "ue_select" /\ req'[r] # rq)
       => /\ enrollments' = enrollments
          /\ target = {} => req'[r].pc = "done" /\ req'[r].status = 404
          /\ (\E e \in target : e.student_id # rq.user)
             => req'[r].pc = "done" /\ req'[r].status = 403
          /\ (\E e \in target : e.student_id = rq.user) => req'[r].pc = "ue_delete"
    /\ (rq.kind = "unenroll" /\ rq.pc = "u_delete" /\ req'[r] # rq)
       => /\ enrollments' = enrollments \ mine
          /\ Cardinality(mine) <= 1
          /\ req'[r].status = IF mine = {} THEN 404 ELSE 204

\* C26 as stated: the DELETE statement of DELETE /enrollments/:enrollmentId
\* removes exactly one row, the caller's enrollment with that id.
C26_Original ==
    [][\A r \in Slots :
         /\ UnenrollChecks(r)
         /\ (req[r].kind = "unenrollById" /\ req[r].pc = "ue_delete" /\ req'[r] # req[r])
            => /\ req'[r].status = 204
               /\ \E e \in enrollments :
                    /\ e.id = req[r].id /\ e.student_id = req[r].user
                    /\ enrollments' = enrollments \ {e}]_vars

\* C26: a student can remove only their own enrollments.  DELETE
\* /enrollments/:enrollmentId answers 403 on another student's enrollment and
\* 404 on an unknown id, deleting nothing; on the caller's own enrollment it
\* answers 204 and removes that row and no other, or nothing when another
\* request removed the row after the ownership check.  DELETE
\* /enrollments/by-course/:courseId removes the caller's row for the course
\* (at most one) and answers 404 when there is none.
C26_OwnEnrollmentsOnly ==
    [][\A r \in Slots :
         /\ UnenrollChecks(r)
         /\ (req[r].kind = "unenrollById" /\ req[r].pc = "ue_delete" /\ req'[r] # req[r])
            => /\ req'[r].status = 204
               /\ enrollments' = {e \in enrollments : e.id # req[r].id}
               /\ \A e \in enrollments \ enrollments' : e.student_id = req[r].user
               /\ Cardinality(enrollments \ enrollments') <= 1]_vars

\* one student removed an enrollment of their own by id while another was
\* refused the removal of an enrollment that is not theirs, which is still there
C26_Witness ==
    \E r1 \in Slots, r2 \in Slots :
        /\ DoneKind(r1, "unenrollById") /\ req[r1].status = 204
        /\ \A e \in enrollments : e.id # req[r1].id
        /\ DoneKind(r2, "unenrollById") /\ req[r2].status = 403
        /\ req[r2].error = "Not your enrollment"
        /\ \E e \in enrollments : e.id = req[r2].id /\ e.student_id # req[r2].user

\* C27: only students are enrolled.  In every state, every enrollment row's
\* student_id names an existing user whose role is STUDENT.
C27_OnlyStudentsEnrolled ==
    \A e \in enrollments :
        e.student_id \in DOMAIN users /\ users[e.student_id] = "STUDENT"

\* the INSERT of (sid, c) into enrollments fails: the pair is there already,
\* or sid names no user, or c names no course
InsertFails(sid, c) ==
    \/ \E e \in enrollments : e.student_id = sid /\ e.course_id = c
    \/ sid \notin DOMAIN users
    \/ c \notin DOMAIN courses

\* C28: bulk enroll is not atomic.  When the insert for the candidate at
\* position k fails, that step answers 500 "Server error" with no results
\* list and leaves the enrollments as they are at that moment (the rows
\* inserted for earlier candidates are not rolled back), and the request is
\* over: no later candidate is processed.  When it does not fail, the row is
\* added at once, visible to every other request.
C28_BulkNotAtomic ==
    [][\A r \in Slots :
         LET rq == req[r] IN
         (rq.kind = "bulk" /\ rq.pc = "b_insert" /\ req'[r] # rq)
         => IF InsertFails(rq.studentIds[rq.i], rq.courseId)
               THEN /\ req'[r].pc = "done" /\ req'[r].status = 500
                    /\ req'[r].error = "Server error"
                    /\ req'[r].results = <<>>
                    /\ enrollments' = enrollments
            ELSE /\ req'[r].status # 500
                 /\ \E e \in enrollments' \ enrollments :
                      e.student_id = rq.studentIds[rq.i] /\ e.course_id = rq.courseId]_vars

\* a batch of two answered 500 for its second candidate, enrolled by another
\* request after the batch's exists check, while the row the batch inserted
\* for its first candidate is in the table
C28_Witness ==
    \E r \in Slots :
        /\ DoneKind(r, "bulk") /\ req[r].status = 500
        /\ Len(req[r].studentIds) = 2
        /\ req[r].studentIds[1] # req[r].studentIds[2]
        /\ \E e \in enrollments \ enrollments0 :
             e.student_id = req[r].studentIds[1] /\ e.course_id = req[r].courseId
        /\ \E q \in Slots \ {r} :
             /\ DoneKind(q, "enroll") /\ req[q].status = 201
             /\ req[q].user = req[r].studentIds[2]

\* an enrollment table as a set of (student, course) pairs
Pairs(E) == {<<e.student_id, e.course_id>> : e \in E}

\* the request answered before the latest one was kind `kind` by s for c and
\* ended with `status`; n = 1 is the latest answered, n = 2 the one before
Was(n, kind, s, c, status) ==
    /\ Len(served) >= n
    /\ served[n].kind = kind /\ served[n].user = s
    /\ served[n].courseId = c /\ served[n].status = status

\* C29: enroll/unenroll round trip.  Served one after the other, a student's
\* successful enroll followed by the same student's DELETE
\* /enrollments/by-course/:courseId for that course answers 204 and leaves
\* the enrollment pairs and the course's occupancy as they were before the
\* enroll; the next enroll for that course by the same student, or by another
\* student not enrolled and with the prerequisites met, is admitted.
C29_RoundTrip ==
    LET s == req[1].user c == req[1].courseId IN
    /\ (DoneKind(1, "unenroll") /\ Was(1, "enroll", s, c, 201))
       => /\ req[1].status = 204
          /\ Pairs(enrollments) = Pairs(served[1].enrollments)
          /\ Cardinality({e \in enrollments : e.course_id = c})
               = Cardinality({e \in served[1].enrollments : e.course_id = c})
    /\ (/\ DoneKind(1, "enroll") /\ Len(served) >= 2
        /\ Was(1, "unenroll", served[1].user, c, 204)
        /\ Was(2, "enroll", served[1].user, c, 201))
       => \/ req[1].status = 201
          \/ /\ s # served[1].user
             /\ \/ <<s, c>> \in Pairs(served[2].enrollments)
                \/ PrereqsUnmet(s, c)

\* the course had one seat, student 1 took it and gave it back, and student 2
\* was admitted to it
C29_Witness ==
    /\ DoneKind(1, "enroll") /\ req[1].status = 201 /\ req[1].user = 2
    /\ Len(served) = 2
    /\ Was(1, "unenroll", 1, req[1].courseId, 204)
    /\ Was(2, "enroll", 1, req[1].courseId, 201)
    /\ courses[req[1].courseId].enrollment_limit
         = Cardinality({e \in served[1].enrollments : e.course_id = req[1].courseId})

\* the request answered just before the latest one was a PUT /courses/c that
\* set the enrollment_limit and was answered 200
LimitJustSet(c) ==
    /\ served # <<>>
    /\ served[1].kind = "putCourse" /\ served[1].id = c /\ served[1].status = 200

\* the enrollment rows of c number at least its enrollment_limit
AtOrOverLimit(c) ==
    Cardinality({e \in enrollments0 : e.course_id = c}) >= courses[c].enrollment_limit

\* C30: lowering a limit below occupancy.  A PUT /courses/:id that carries an
\* enrollment_limit >= 0 and reaches its UPDATE is answered 200 whatever the
\* course's enrollment count, sets the limit to the value sent and removes no
\* enrollment.  A request served after it while the course's enrollment rows
\* number at least the limit: a single enroll is answered 409 "Course is at
\* capacity"; a bulk enroll is answered 200 with seatsLeft 0 and every
\* candidate recorded with reason capacity; GET /courses reports
\* available_seats 0.  No GET /courses reports a negative number.
C30_LoweredLimit ==
    [][\A r \in Slots :
         LET rq == req[r] c == rq.courseId IN
         /\ (rq.kind = "putCourse" /\ rq.pc \in {"pc_update", "pc_commit"}
             /\ req'[r] # rq /\ "enrollment_limit" \in rq.given /\ rq.given = {"enrollment_limit"}
             /\ rq.id \in DOMAIN courses)
            => /\ enrollments' = enrollments
               /\ rq.pc = "pc_update" => req'[r].pc = "pc_commit"
               /\ rq.pc = "pc_commit"
                  => /\ req'[r].status = 200
                     /\ courses'[rq.id].enrollment_limit = rq.enrollment_limit
                     /\ rq.enrollment_limit >= 0
         /\ (req'[r].pc = "done" /\ rq.pc \notin {"done", "idle"}
             /\ rq.kind \in {"enroll", "bulk"} /\ c \in DOMAIN courses
             /\ LimitJustSet(c) /\ AtOrOverLimit(c))
            => IF rq.kind = "enroll"
                  THEN /\ req'[r].status = 409
                       /\ req'[r].error = "Course is at capacity"
                       /\ enrollments' = enrollments
               ELSE /\ req'[r].status = 200 /\ req'[r].seatsLeft = 0
                    /\ Len(req'[r].results) = Len(rq.studentIds)
                    /\ \A k \in 1..Len(rq.studentIds) :
                         req'[r].results[k] = [studentId |-> rq.studentIds[k],
                                               ok |-> FALSE, reason |-> "capacity"]
                    /\ enrollments' = enrollments
         /\ (rq.kind = "getCourses" /\ req'[r].pc = "done" /\ rq.pc = "gc_select")
            => \A x \in DOMAIN courses :
                  /\ req'[r].seats[x] >= 0
                  /\ Cardinality({e \in enrollments : e.course_id = x})
                        >= courses[x].enrollment_limit
                     => req'[r].seats[x] = 0]_vars

\* after a PUT set the limit of a course below the number of its enrollment
\* rows, GET /courses was answered
C30_Witness ==
    \E r \in Slots :
        /\ DoneKind(r, "getCourses")
        /\ \E c \in DOMAIN courses :
             /\ LimitJustSet(c)
             /\ Cardinality({e \in enrollments : e.course_id = c})
                  > courses[c].enrollment_limit
             /\ req[r].seats[c] = 0

====
